---- MODULE Spec2Model ----
(***************************************************************************)
(* Geometry engine of horn-designer: R-OSSE profile solver, blend engine,  *)
(* dual modulation, mesh assembler, shell generator and binary STL         *)
(* encoder.                                                                *)
(*                                                                         *)
(* Numbers.  The TypeScript code computes in IEEE doubles.  Here a number  *)
(* x is the integer round(x * SC) (fixed point, three decimals), every     *)
(* arithmetic step rounds to the nearest representable value as a double   *)
(* operation does, and the Math.* library functions are computed by range  *)
(* reduction and series.  Math.sin(2*Math.PI) is 0 here; in doubles it is  *)
(* -2.45e-16.                                                              *)
(***************************************************************************)
EXTENDS Integers, Sequences, FiniteSets, TLC

VARIABLES pc, state, hData, vData, meshData, metrics, shellData, stl, call, ret, steps

vars == <<pc, state, hData, vData, meshData, metrics, shellData, stl, call, ret, steps>>

\* JavaScript null (a record, so that it compares with every result record).
Null == [null |-> TRUE]

\* ------------------------------------------------------------------------
\* Fixed-point arithmetic
\* ------------------------------------------------------------------------

\* One unit: the number 1.0.
SC == 10 * 10 * 10

Abs(a) == IF a < 0 THEN -a ELSE a

Sign(a) == IF a > 0 THEN 1 ELSE IF a < 0 THEN -1 ELSE 0

Max(a, b) == IF a >= b THEN a ELSE b

Min(a, b) == IF a <= b THEN a ELSE b

\* a / b on integers, rounded to nearest (b > 0).
RoundDiv(a, b) == (2 * a + b) \div (2 * b)

\* |a| * |b| / SC, split on the larger factor so that no intermediate
\* product leaves the 32-bit range.
MulAbs(a, b) ==
    LET hi == Max(a, b)
        lo == Min(a, b)
    IN  (hi \div SC) * lo + RoundDiv((hi % SC) * lo, SC)

\* The product a * b.
Mul(a, b) == Sign(a) * Sign(b) * MulAbs(Abs(a), Abs(b))

\* |a| / |b| (b # 0), split the same way.
DivAbs(a, b) == (a \div b) * SC + RoundDiv((a % b) * SC, b)

\* The quotient a / b for b # 0.
Div(a, b) == Sign(a) * Sign(b) * DivAbs(Abs(a), Abs(b))

RECURSIVE ISqrtIter(_, _, _)
ISqrtIter(n, lo, hi) ==
    IF lo >= hi THEN lo
    ELSE LET mid == (lo + hi + 1) \div 2
         IN  IF mid * mid <= n THEN ISqrtIter(n, mid, hi)
             ELSE ISqrtIter(n, lo, mid - 1)

\* Floor of the integer square root, n >= 0.
ISqrt(n) == ISqrtIter(n, 0, Min(n, 46340))

\* Math.sqrt(v) for v >= 0.
Sqrt(v) == IF v < 2000000 THEN ISqrt(v * SC) ELSE ISqrt(v \div 10) * 100

\* Math.PI and 2 * Math.PI.
PI == 3142
TWO_PI == 6283
HALF_PI == PI \div 2

\* The Taylor polynomial of sin in Horner form, x2 being x * x.
SinHorner(x, x2) ==
    Min(SC, Mul(x, SC - Mul(x2, SC - Mul(x2, SC - Mul(x2, SC - x2 \div 72) \div 42)
                                     \div 20) \div 6))

\* sin on [0, pi/2].
SinPoly(x) == SinHorner(x, Mul(x, x))

\* sin of an angle r already reduced to [0, 2 pi).
SinReduced(r) ==
    (IF r <= PI THEN 1 ELSE -1)
    * SinPoly(IF r <= HALF_PI THEN r
              ELSE IF r <= PI THEN PI - r
              ELSE IF r <= PI + HALF_PI THEN r - PI
              ELSE TWO_PI - r)

\* Math.sin(x).
Sin(x) == SinReduced(x % TWO_PI)

\* Math.cos(x).
Cos(x) == Sin(x + HALF_PI)

\* Math.tan(x).
Tan(x) == Div(Sin(x), Cos(x))

\* Math.LN2.
LN2 == 693

RECURSIVE LnReduce(_, _)
\* <<m, k>> with x = m / 2^k and m in (SC/2, SC].
LnReduce(x, k) == IF 2 * x <= SC THEN LnReduce(2 * x, k + 1) ELSE <<x, k>>

\* 2 * artanh(u) by its series in Horner form, u2 being u * u.
LnHorner(u, u2) ==
    2 * Mul(u, SC + Mul(u2, SC \div 3 + Mul(u2, SC \div 5 + u2 \div 7)))

LnSeries(u) == LnHorner(u, Mul(u, u))

\* log(m / 2^k) for mk = <<m, k>>.
LnOf(mk) == LnSeries(Div(mk[1] - SC, mk[1] + SC)) - mk[2] * LN2

\* Math.log(x) for 0 < x <= 1.
Ln(x) == LnOf(LnReduce(x, 0))

RECURSIVE Pow2(_)
Pow2(k) == IF k = 0 THEN 1 ELSE 2 * Pow2(k - 1)

\* exp on [-ln 2, 0] by its Taylor polynomial in Horner form.
ExpSeries(r) ==
    SC + Mul(r, SC + Mul(r, SC + Mul(r, SC + Mul(r, SC + r \div 5) \div 4) \div 3) \div 2)

\* exp(y) = exp(y + k ln 2) / 2^k.
ExpOf(y, k) == IF k >= 20 THEN 0 ELSE RoundDiv(ExpSeries(y + k * LN2), Pow2(k))

\* Math.exp(y) for y <= 0.
Exp(y) == ExpOf(y, (-y) \div LN2)

\* x ** p for 0 <= x <= 1 and p >= 0.
Pow(x, p) ==
    IF p = 0 THEN SC
    ELSE IF x <= 0 THEN 0
    ELSE IF x >= SC THEN SC
    ELSE Exp(Mul(p, Ln(x)))

\* ------------------------------------------------------------------------
\* Arrays are functions on 0..length-1, as in the source.
\* ------------------------------------------------------------------------

Length(a) == Cardinality(DOMAIN a)

\* ------------------------------------------------------------------------
\* Blend engine (blending.ts)
\* ------------------------------------------------------------------------

clamp(value, min, max) == Max(min, Min(max, value))

\* hermite with 3 - s for 3 - 2 * s.
hermiteSlip(s) == Mul(Mul(s, s), 3 * SC - s)

\* s * s * (3 - 2 * s)
hermite(s) == Mul(Mul(s, s), 3 * SC - 2 * s)

\* smoothstep without the clamp to [0, 1].
smoothstepUnclamped(t, start, end) ==
    IF start >= end THEN (IF t >= end THEN SC ELSE 0)
    ELSE hermite(Div(t - start, end - start))

\* smoothstep whose degenerate window steps after end, not at it.
smoothstepStrict(t, start, end) ==
    IF start >= end THEN (IF t > end THEN SC ELSE 0)
    ELSE hermite(clamp(Div(t - start, end - start), 0, SC))

smoothstep(t, start, end) ==
    IF start >= end THEN (IF t >= end THEN SC ELSE 0)
    ELSE hermite(clamp(Div(t - start, end - start), 0, SC))

poweredSmoothstep(t, start, end, power) == Pow(smoothstep(t, start, end), power)

\* lerp with its end points exchanged.
lerpSwapped(a, b, t) == b + Mul(t, a - b)

lerp(a, b, t) == a + Mul(t, b - a)

smoothLerp(a, b, t, start, end, power) ==
    lerp(a, b, poweredSmoothstep(t, start, end, power))

\* ------------------------------------------------------------------------
\* Profile solver (rosse.ts)
\* ------------------------------------------------------------------------

\* numPoints default of computeROSSE.
DEFAULT_NUM_POINTS == 300

\* v ** 2
Sq(v) == Mul(v, v)

\* (deg * Math.PI) / 180
toRadians(deg) == RoundDiv(Mul(deg, PI), 180)

\* c1, c2, c3 and the discriminant made of them.
rosseDisc(params, c1, c2, c3) ==
    [c1 |-> c1, c2 |-> c2, c3 |-> c3,
     disc |-> Sq(c2) - Mul(4 * c3, c1 - Sq(params.R + Mul(params.r0, params.k - SC)))]

\* The auxiliary constants of computeROSSE.
rosseConsts(params) ==
    rosseDisc(params,
              Sq(Mul(params.k, params.r0)),
              Mul(2 * Mul(params.k, params.r0), Tan(toRadians(params.a0_deg))),
              Sq(Tan(toRadians(params.a_deg))))

\* rosseX with (t + m) ** 2 under the root instead of (t - m) ** 2.
rosseXMirrored(params, L, t, sm) ==
    Mul(L, sm - Sqrt(Sq(params.rho) + Sq(t + params.m)))
    + Mul(Mul(Mul(Mul(params.b, L),
                  Sqrt(Sq(params.rho) + Sq(SC - params.m)) - sm), t), t)

\* x(t) of the profile; sm is Math.sqrt(rho * rho + m * m).
rosseX(params, L, t, sm) ==
    Mul(L, sm - Sqrt(Sq(params.rho) + Sq(t - params.m)))
    + Mul(Mul(Mul(Mul(params.b, L),
                  Sqrt(Sq(params.rho) + Sq(SC - params.m)) - sm), t), t)

\* y(t) of the profile; tq is t ** q and Lt is L * t.
rosseY(params, c, L, t, tq, Lt) ==
    Mul(SC - tq, Sqrt(c.c1 + Mul(c.c2, Lt) + Mul(c.c3, Sq(Lt)))
                 + Mul(params.r0, SC - params.k))
    + Mul(tq, params.R + Mul(L, SC - Sqrt(SC + Mul(c.c3, Sq(t - SC)))))

\* The point pushed for parameter t.
rossePoint(params, c, L, t) ==
    [t |-> t,
     x |-> rosseX(params, L, t, Sqrt(Sq(params.rho) + Sq(params.m))),
     y |-> rosseY(params, c, L, t, Pow(t, params.q), Mul(L, t))]

\* The result for a solvable profile of axial length L.
rosseCurve(params, c, L, numPoints) ==
    [points |-> [i \in 0..numPoints |->
                   rossePoint(params, c, L, RoundDiv(i * SC, numPoints))],
     L |-> L, c1 |-> c.c1, c2 |-> c.c2, c3 |-> c.c3]

\* rosseSolve taking the root of |disc| instead of returning null.
rosseSolveAbs(params, c, numPoints) ==
    rosseCurve(params, c, Mul(Div(SC, 2 * c.c3), Sqrt(Abs(c.disc)) - c.c2), numPoints)

\* The discriminant test and the axial length.
rosseSolve(params, c, numPoints) ==
    IF c.disc < 0 THEN Null
    ELSE rosseCurve(params, c, Mul(Div(SC, 2 * c.c3), Sqrt(c.disc) - c.c2), numPoints)

computeROSSE(params, numPoints) == rosseSolve(params, rosseConsts(params), numPoints)

\* Math.min(Math.round(t * (points.length - 1)), points.length - 1)
lookupIndex(points, t) ==
    Min(RoundDiv(t * (Length(points) - 1), SC), Length(points) - 1)

lookupY(points, t) == points[lookupIndex(points, t)].y

lookupX(points, t) == points[lookupIndex(points, t)].x

\* ------------------------------------------------------------------------
\* Modulation system (modulation.ts)
\* ------------------------------------------------------------------------

\* numSamples default of prepModParams.
DEFAULT_NUM_SAMPLES == 360

modRawDiagonal(theta, params) ==
    params.base + Mul(params.amp, Pow(Abs(Sin(Mul(params.freq, theta))), params.exp))

modRawCardinal(theta, params) ==
    params.base + Mul(params.amp, Pow(Abs(Cos(Mul(params.freq, theta))), params.exp))

RECURSIVE sumDiagonal(_, _, _, _)
\* The sum prepModParams accumulates over the samples i = lo..hi (added in
\* halves, which keeps the evaluation shallow; the sum is the same).
sumDiagonal(params, lo, hi, numSamples) ==
    IF lo > hi THEN 0
    ELSE IF lo = hi THEN modRawDiagonal(RoundDiv(TWO_PI * lo, numSamples), params)
    ELSE LET mid == (lo + hi) \div 2
         IN  sumDiagonal(params, lo, mid, numSamples)
             + sumDiagonal(params, mid + 1, hi, numSamples)

RECURSIVE sumCardinal(_, _, _, _)
sumCardinal(params, lo, hi, numSamples) ==
    IF lo > hi THEN 0
    ELSE IF lo = hi THEN modRawCardinal(RoundDiv(TWO_PI * lo, numSamples), params)
    ELSE LET mid == (lo + hi) \div 2
         IN  sumCardinal(params, lo, mid, numSamples)
             + sumCardinal(params, mid + 1, hi, numSamples)

prepModParams(diagonalMod, cardinalMod, numSamples) ==
    LET avgDiagonal == IF diagonalMod.enabled
                       THEN RoundDiv(sumDiagonal(diagonalMod, 0, numSamples - 1, numSamples),
                                     numSamples)
                       ELSE SC
        avgCardinal == IF cardinalMod.enabled
                       THEN RoundDiv(sumCardinal(cardinalMod, 0, numSamples - 1, numSamples),
                                     numSamples)
                       ELSE SC
    IN  [diagonal |-> [enabled |-> diagonalMod.enabled, base |-> diagonalMod.base,
                       amp |-> diagonalMod.amp, freq |-> diagonalMod.freq,
                       exp |-> diagonalMod.exp, avg |-> avgDiagonal],
         cardinal |-> [enabled |-> cardinalMod.enabled, base |-> cardinalMod.base,
                       amp |-> cardinalMod.amp, freq |-> cardinalMod.freq,
                       exp |-> cardinalMod.exp, avg |-> avgCardinal]]

\* The safety floor of combinedModulation, 0.1.
MOD_FLOOR == SC \div 10

\* modContribution without the blend factor.
modContributionUnblended(mf, raw, avg) == Div(raw, avg) - SC

\* mf * (raw / avg - 1)
modContribution(mf, raw, avg) == Mul(mf, Div(raw, avg) - SC)

\* modMultiplier without the safety floor.
modMultiplierUnfloored(theta, mf, prep) ==
    SC + (IF prep.diagonal.enabled /\ prep.diagonal.avg > 0
          THEN modContribution(mf, modRawDiagonal(theta, prep.diagonal), prep.diagonal.avg)
          ELSE 0)
       + (IF prep.cardinal.enabled /\ prep.cardinal.avg > 0
          THEN modContribution(mf, modRawCardinal(theta, prep.cardinal), prep.cardinal.avg)
          ELSE 0)

\* The multiplier for blend factor mf, floored.
modMultiplier(theta, mf, prep) ==
    Max(MOD_FLOOR,
        SC + (IF prep.diagonal.enabled /\ prep.diagonal.avg > 0
              THEN modContribution(mf, modRawDiagonal(theta, prep.diagonal),
                                   prep.diagonal.avg)
              ELSE 0)
           + (IF prep.cardinal.enabled /\ prep.cardinal.avg > 0
              THEN modContribution(mf, modRawCardinal(theta, prep.cardinal),
                                   prep.cardinal.avg)
              ELSE 0))

combinedModulation(theta, t, prep, modBlend) ==
    modMultiplier(theta,
                  poweredSmoothstep(t, modBlend.modStart, modBlend.modEnd, modBlend.modPow),
                  prep)

\* ------------------------------------------------------------------------
\* Mesh assembler (mesh.ts)
\* ------------------------------------------------------------------------

\* superellipse with the multiplier applied to px only.
superellipseHalfScaled(xH, yH, yV, c, s, e, mod) ==
    <<Mul(Mul(yH * Sign(c), Pow(Abs(c), e)), mod),
      Mul(yV * Sign(s), Pow(Abs(s), e)),
      xH>>

\* The superellipse point for cosine c, sine s and exponent e = 2 / n,
\* scaled by the modulation multiplier mod.
superellipse(xH, yH, yV, c, s, e, mod) ==
    <<Mul(Mul(yH * Sign(c), Pow(Abs(c), e)), mod),
      Mul(Mul(yV * Sign(s), Pow(Abs(s), e)), mod),
      xH>>

\* The point of slice si; theta = (2 * Math.PI * si) / numSlices.
meshPointAt(theta, t, xH, yH, yV, n, modPrep, modBlend) ==
    superellipse(xH, yH, yV, Cos(theta), Sin(theta), Div(2 * SC, n),
                 combinedModulation(theta, t, modPrep, modBlend))

meshPoint(si, numSlices, t, xH, yH, yV, n, modPrep, modBlend) ==
    meshPointAt(RoundDiv(TWO_PI * si, numSlices), t, xH, yH, yV, n, modPrep, modBlend)

\* The ring record of axial parameter t with its blended radii and exponent.
meshRingOf(t, xH, yH, yV, n, modBlend, modPrep, numSlices) ==
    [t |-> t,
     ring |-> [si \in 0..numSlices |->
                 meshPoint(si, numSlices, t, xH, yH, yV, n, modPrep, modBlend)],
     xH |-> xH, yH |-> yH, yV |-> yV, n |-> n]

meshRingAt(t, hPts, vPts, r0, shapeBlend, modBlend, modPrep, numSlices) ==
    meshRingOf(t, lookupX(hPts, t),
               smoothLerp(r0, lookupY(hPts, t), t, shapeBlend.shapeStart,
                          shapeBlend.shapeEnd, shapeBlend.shapePow),
               smoothLerp(r0, lookupY(vPts, t), t, shapeBlend.shapeStart,
                          shapeBlend.shapeEnd, shapeBlend.shapePow),
               smoothLerp(2 * SC, shapeBlend.nMouth, t, shapeBlend.shapeStart,
                          shapeBlend.shapeEnd, shapeBlend.shapePow),
               modBlend, modPrep, numSlices)

\* meshRing with t = ri / (numRings + 1), which stops short of the mouth.
meshRingShort(ri, hPts, vPts, r0, shapeBlend, modBlend, modPrep, numRings, numSlices) ==
    meshRingAt(RoundDiv(ri * SC, numRings + 1), hPts, vPts, r0, shapeBlend, modBlend,
               modPrep, numSlices)

\* Ring ri, at t = ri / numRings.
meshRing(ri, hPts, vPts, r0, shapeBlend, modBlend, modPrep, numRings, numSlices) ==
    meshRingAt(RoundDiv(ri * SC, numRings), hPts, vPts, r0, shapeBlend, modBlend,
               modPrep, numSlices)

buildMesh(hD, vD, shapeBlend, modBlend, diagonalModParams, cardModParams, numRings, numSlices) ==
    IF hD = Null \/ vD = Null THEN Null
    ELSE LET r0      == hD.points[0].y
             modPrep == prepModParams(diagonalModParams, cardModParams,
                                      DEFAULT_NUM_SAMPLES)
         IN  [rings |-> [ri \in 0..numRings |->
                           meshRing(ri, hD.points, vD.points, r0, shapeBlend, modBlend,
                                    modPrep, numRings, numSlices)],
              numSlices |-> numSlices]

\* computeMeshMetrics taking the mouth height from the horizontal radius.
computeMeshMetricsWide(mesh) ==
    IF mesh = Null \/ Length(mesh.rings) = 0 THEN Null
    ELSE LET firstRing == mesh.rings[0]
             lastRing  == mesh.rings[Length(mesh.rings) - 1]
         IN  [throat |-> firstRing.yH, depth |-> lastRing.xH,
              mouthWidth |-> lastRing.yH * 2, mouthHeight |-> lastRing.yH * 2]

computeMeshMetrics(mesh) ==
    IF mesh = Null \/ Length(mesh.rings) = 0 THEN Null
    ELSE LET firstRing == mesh.rings[0]
             lastRing  == mesh.rings[Length(mesh.rings) - 1]
         IN  [throat |-> firstRing.yH, depth |-> lastRing.xH,
              mouthWidth |-> lastRing.yH * 2, mouthHeight |-> lastRing.yV * 2]

\* ------------------------------------------------------------------------
\* Shell generator (shell.ts)
\* ------------------------------------------------------------------------

\* Largest component for which the three squares below fit in 32 bits.
NORM_RANGE == 30 * SC

\* Math.sqrt(x * x + y * y + z * z)
vecLength(v) == Sqrt(Sq(v[1]) + Sq(v[2]) + Sq(v[3]))

\* unitOf dividing by the length whatever it is: 0 / 0 for a zero vector,
\* which leaves no direction.
unitOfUnguarded(v, len) ==
    IF len = 0 THEN <<0, 0, 0>>
    ELSE <<Div(v[1], len), Div(v[2], len), Div(v[3], len)>>

\* [x / len, y / len, z / len], or [0, 0, 1] when len < 1e-10.
unitOf(v, len) ==
    IF len = 0 THEN <<0, 0, SC>>
    ELSE <<Div(v[1], len), Div(v[2], len), Div(v[3], len)>>

\* The vector divided by f; its direction stays as it is.
scaleDown(x, y, z, f) == <<RoundDiv(x, f), RoundDiv(y, f), RoundDiv(z, f)>>

\* normalize([x, y, z]).  The vector is first brought into NORM_RANGE.
normalize(x, y, z) ==
    unitOf(scaleDown(x, y, z, Max(Abs(x), Max(Abs(y), Abs(z))) \div NORM_RANGE + 1),
           vecLength(scaleDown(x, y, z,
                               Max(Abs(x), Max(Abs(y), Abs(z))) \div NORM_RANGE + 1)))

normalizeVec(v) == normalize(v[1], v[2], v[3])

\* The cross product e1 x e2 of the edges v2 - v1 and v3 - v1.
edgeCross(v1, v2, v3) ==
    LET e1x == v2[1] - v1[1]
        e1y == v2[2] - v1[2]
        e1z == v2[3] - v1[3]
        e2x == v3[1] - v1[1]
        e2y == v3[2] - v1[2]
        e2z == v3[3] - v1[3]
    IN  <<Mul(e1y, e2z) - Mul(e1z, e2y),
          Mul(e1z, e2x) - Mul(e1x, e2z),
          Mul(e1x, e2y) - Mul(e1y, e2x)>>

\* The normalised face normal of quad (ri, si): edges A->B and A->D.
faceNormal(rings, ri, si) ==
    normalizeVec(edgeCross(rings[ri].ring[si], rings[ri].ring[si + 1],
                           rings[ri + 1].ring[si]))

addTo(normals, idx, n) ==
    [normals EXCEPT ![idx] = <<@[1] + n[1], @[2] + n[2], @[3] + n[3]>>]

\* The face normal n added to the four corners of quad (ri, si).
addQuad(normals, ri, si, vertsPerRing, n) ==
    addTo(addTo(addTo(addTo(normals, ri * vertsPerRing + si, n),
                      ri * vertsPerRing + si + 1, n),
                (ri + 1) * vertsPerRing + si + 1, n),
          (ri + 1) * vertsPerRing + si, n)

RECURSIVE accumulateQuads(_, _, _, _, _)
\* The accumulator after quads 0..k-1, quad q being (q div numSlices, q mod numSlices).
accumulateQuads(normals, rings, k, numQuads, numSlices) ==
    IF k >= numQuads THEN normals
    ELSE accumulateQuads(addQuad(normals, k \div numSlices, k % numSlices, numSlices + 1,
                                 faceNormal(rings, k \div numSlices, k % numSlices)),
                         rings, k + 1, numQuads, numSlices)

\* fixSeam assigning the sum to the vertex at slice 0 only.
fixSeamOneSided(normals, numSlices) ==
    LET vertsPerRing == numSlices + 1
    IN  [i \in DOMAIN normals |->
           IF i % vertsPerRing = 0
           THEN <<normals[i][1] + normals[i + numSlices][1],
                  normals[i][2] + normals[i + numSlices][2],
                  normals[i][3] + normals[i + numSlices][3]>>
           ELSE normals[i]]

\* Seam fix-up: both seam vertices of a ring get the sum of their two accumulators.
fixSeam(normals, numSlices) ==
    LET vertsPerRing == numSlices + 1
    IN  [i \in DOMAIN normals |->
           IF i % vertsPerRing = 0 \/ i % vertsPerRing = numSlices
           THEN LET idx0    == (i \div vertsPerRing) * vertsPerRing
                    idxLast == idx0 + numSlices
                IN  <<normals[idx0][1] + normals[idxLast][1],
                      normals[idx0][2] + normals[idxLast][2],
                      normals[idx0][3] + normals[idxLast][3]>>
           ELSE normals[i]]

\* Every accumulated normal normalised.
normalizeAll(normals) == [i \in DOMAIN normals |-> normalizeVec(normals[i])]

calculateVertexNormals(mesh) ==
    normalizeAll(
        fixSeam(accumulateQuads([i \in 0..(Length(mesh.rings) * (mesh.numSlices + 1) - 1)
                                   |-> <<0, 0, 0>>],
                                mesh.rings, 0,
                                (Length(mesh.rings) - 1) * mesh.numSlices,
                                mesh.numSlices),
                mesh.numSlices))

\* offsetRing reading the normal at ri * numSlices + si.
offsetRingStride(mesh, normals, thickness, ri) ==
    [si \in 0..mesh.numSlices |->
       LET p == mesh.rings[ri].ring[si]
           n == normals[ri * mesh.numSlices + si]
       IN  <<p[1] + Mul(n[1], thickness),
             p[2] + Mul(n[2], thickness),
             p[3] + Mul(n[3], thickness)>>]

\* The vertices of ring ri offset along their normals.
offsetRing(mesh, normals, thickness, ri) ==
    [si \in 0..mesh.numSlices |->
       LET p == mesh.rings[ri].ring[si]
           n == normals[ri * (mesh.numSlices + 1) + si]
       IN  <<p[1] + Mul(n[1], thickness),
             p[2] + Mul(n[2], thickness),
             p[3] + Mul(n[3], thickness)>>]

\* closeRing leaving the last vertex where the offset put it.
closeRingSkipped(ring, numSlices) == ring

\* outerRing[numSlices] = [...outerRing[0]]
closeRing(ring, numSlices) == [ring EXCEPT ![numSlices] = ring[0]]

\* One ring of the outer surface: offset along the normals, then the last
\* vertex overwritten with a copy of the first.
outerRing(mesh, normals, thickness, ri) ==
    closeRing(offsetRing(mesh, normals, thickness, ri), mesh.numSlices)

\* innerRings with every ring rotated by one slice.
innerRingsShifted(mesh) ==
    [ri \in DOMAIN mesh.rings |->
       [si \in DOMAIN mesh.rings[ri].ring |->
          mesh.rings[ri].ring[(si + 1) % (mesh.numSlices + 1)]]]

\* innerRings of generateShellMesh: rings.map((r) => r.ring).
innerRingsOf(mesh) == [ri \in DOMAIN mesh.rings |-> mesh.rings[ri].ring]

\* The ShellMeshData built from the vertex normals.
shellOf(mesh, shellParams, normals) ==
    [innerRings |-> innerRingsOf(mesh),
     outerRings |-> [ri \in DOMAIN mesh.rings |->
                       outerRing(mesh, normals, shellParams.thickness, ri)],
     normals |-> normals,
     numSlices |-> mesh.numSlices,
     hasThroatCap |-> shellParams.throatCap,
     hasMouthCap |-> shellParams.mouthCap]

generateShellMesh(mesh, shellParams) ==
    IF mesh = Null \/ ~shellParams.enabled THEN Null
    ELSE shellOf(mesh, shellParams, calculateVertexNormals(mesh))

\* ------------------------------------------------------------------------
\* Binary encoder (stl.ts)
\* ------------------------------------------------------------------------

calculateTriangleNormal(v1, v2, v3) == normalizeVec(edgeCross(v1, v2, v3))

\* DataView.setFloat32: the value rounded to 24 significant bits.
setFloat32(v) ==
    IF Abs(v) < 16777216 THEN v ELSE Sign(v) * (RoundDiv(Abs(v), 256) * 256)

\* DataView.setUint32(_, n, true): the four bytes, least significant first.
setUint32LE(n) ==
    <<n % 256, (n \div 256) % 256, (n \div 65536) % 256, (n \div 16777216) % 256>>

\* DataView.getUint32(_, true) of four bytes.
getUint32LE(b) == b[1] + 256 * b[2] + 65536 * b[3] + 16777216 * b[4]

\* Three consecutive setFloat32 writes.
setFloat32x3(v) == <<setFloat32(v[1]), setFloat32(v[2]), setFloat32(v[3])>>

\* writeTriangle returning the offset without the attribute byte count.
writeTriangleNoAttr(offset, v1, v2, v3) ==
    [offset |-> offset,
     normal |-> setFloat32x3(calculateTriangleNormal(v1, v2, v3)),
     v1 |-> setFloat32x3(v1),
     v2 |-> setFloat32x3(v2),
     v3 |-> setFloat32x3(v3),
     attr |-> 0,
     next |-> offset + 12 + 12 + 12 + 12]

\* The 50-byte record writeTriangle puts at offset, and the offset it returns.
writeTriangle(offset, v1, v2, v3) ==
    [offset |-> offset,
     normal |-> setFloat32x3(calculateTriangleNormal(v1, v2, v3)),
     v1 |-> setFloat32x3(v1),
     v2 |-> setFloat32x3(v2),
     v3 |-> setFloat32x3(v3),
     attr |-> 0,
     next |-> offset + 12 + 12 + 12 + 12 + 2]

\* countTriangles without the two closing strips.
countTrianglesNoStrips(mesh, shell) ==
    LET numSlices == mesh.numSlices
        numRings  == Length(mesh.rings)
        inner     == (numRings - 1) * numSlices * 2
    IN  IF shell # Null THEN inner + (numRings - 1) * numSlices * 2 ELSE inner

countTriangles(mesh, shell) ==
    LET numSlices == mesh.numSlices
        numRings  == Length(mesh.rings)
        inner     == (numRings - 1) * numSlices * 2
    IN  IF shell # Null
        THEN inner + (numRings - 1) * numSlices * 2 + numSlices * 2 + numSlices * 2
        ELSE inner

\* A vertex the encoder reads: <<array, ring, slice>>, the array being
\* "mesh" (meshData.rings[ri].ring), "inner" (shellData.innerRings) or
\* "outer" (shellData.outerRings).
vertexAt(mesh, shell, ref) ==
    IF ref[1] = "mesh" THEN mesh.rings[ref[2]].ring[ref[3]]
    ELSE IF ref[1] = "inner" THEN shell.innerRings[ref[2]][ref[3]]
    ELSE shell.outerRings[ref[2]][ref[3]]

\* The two triangles of inner-surface quad (ri, si), reversed winding.
innerQuad(ri, si) ==
    LET v1 == <<"mesh", ri, si>>
        v2 == <<"mesh", ri, si + 1>>
        v3 == <<"mesh", ri + 1, si + 1>>
        v4 == <<"mesh", ri + 1, si>>
    IN  <<<<v1, v4, v3>>, <<v1, v3, v2>>>>

\* The two triangles of outer-surface quad (ri, si), normal winding.
outerQuad(ri, si) ==
    LET v1 == <<"outer", ri, si>>
        v2 == <<"outer", ri, si + 1>>
        v3 == <<"outer", ri + 1, si + 1>>
        v4 == <<"outer", ri + 1, si>>
    IN  <<<<v1, v2, v3>>, <<v1, v3, v4>>>>

\* The two triangles of the throat strip at slice si.
throatQuad(si) ==
    LET o1 == <<"outer", 0, si>>
        o2 == <<"outer", 0, si + 1>>
        i1 == <<"inner", 0, si>>
        i2 == <<"inner", 0, si + 1>>
    IN  <<<<o1, i1, i2>>, <<o1, i2, o2>>>>

\* mouthQuad with the winding of the throat strip.
mouthQuadFlipped(lastIdx, si) ==
    LET o1 == <<"outer", lastIdx, si>>
        o2 == <<"outer", lastIdx, si + 1>>
        i1 == <<"inner", lastIdx, si>>
        i2 == <<"inner", lastIdx, si + 1>>
    IN  <<<<o1, i1, i2>>, <<o1, i2, o2>>>>

\* The two triangles of the mouth strip at slice si.
mouthQuad(lastIdx, si) ==
    LET o1 == <<"outer", lastIdx, si>>
        o2 == <<"outer", lastIdx, si + 1>>
        i1 == <<"inner", lastIdx, si>>
        i2 == <<"inner", lastIdx, si + 1>>
    IN  <<<<o1, o2, i2>>, <<o1, i2, i1>>>>

\* triangleRefs writing the throat strip and the mouth strip only when the
\* cap of that end is switched on.
triangleRefsCapped(mesh, shell) ==
    LET S      == mesh.numSlices
        nQuads == (Length(mesh.rings) - 1) * S
        inner  == [k \in 1..(2 * nQuads) |->
                     innerQuad(((k - 1) \div 2) \div S, ((k - 1) \div 2) % S)[2 - (k % 2)]]
    IN  IF shell = Null THEN inner
        ELSE LET oQuads == (Length(shell.outerRings) - 1) * S
                 outer  == [k \in 1..(2 * oQuads) |->
                              outerQuad(((k - 1) \div 2) \div S,
                                        ((k - 1) \div 2) % S)[2 - (k % 2)]]
                 throat == [k \in 1..(2 * S) |-> throatQuad((k - 1) \div 2)[2 - (k % 2)]]
                 mouth  == [k \in 1..(2 * S) |->
                              mouthQuad(Length(shell.outerRings) - 1,
                                        (k - 1) \div 2)[2 - (k % 2)]]
             IN  inner \o outer \o (IF shell.hasThroatCap THEN throat ELSE <<>>)
                       \o (IF shell.hasMouthCap THEN mouth ELSE <<>>)

\* The triangles in the order the loops of exportToSTL write them.
triangleRefs(mesh, shell) ==
    LET S      == mesh.numSlices
        nQuads == (Length(mesh.rings) - 1) * S
        inner  == [k \in 1..(2 * nQuads) |->
                     innerQuad(((k - 1) \div 2) \div S, ((k - 1) \div 2) % S)[2 - (k % 2)]]
    IN  IF shell = Null THEN inner
        ELSE LET oQuads == (Length(shell.outerRings) - 1) * S
                 outer  == [k \in 1..(2 * oQuads) |->
                              outerQuad(((k - 1) \div 2) \div S,
                                        ((k - 1) \div 2) % S)[2 - (k % 2)]]
                 throat == [k \in 1..(2 * S) |-> throatQuad((k - 1) \div 2)[2 - (k % 2)]]
                 mouth  == [k \in 1..(2 * S) |->
                              mouthQuad(Length(shell.outerRings) - 1,
                                        (k - 1) \div 2)[2 - (k % 2)]]
             IN  inner \o outer \o throat \o mouth

\* The header text of the file.
HEADER_TEXT == "Binary STL - Horn Designer - R-OSSE Waveguide"

RECURSIVE writeTriangles(_, _, _, _, _, _)
RECURSIVE writeRest(_, _, _, _, _, _)
\* The records the loop writes for triangles lo..hi, the first at offset:
\* each call of writeTriangle returns the offset of the next.  The range is
\* walked in halves, in the order of the loop, the second half starting at
\* the offset the first half ended at.
writeTriangles(mesh, shell, refs, lo, hi, offset) ==
    IF lo > hi THEN <<>>
    ELSE IF lo = hi
    THEN <<[refs |-> refs[lo],
            rec |-> writeTriangle(offset, vertexAt(mesh, shell, refs[lo][1]),
                                  vertexAt(mesh, shell, refs[lo][2]),
                                  vertexAt(mesh, shell, refs[lo][3]))]>>
    ELSE writeRest(mesh, shell, refs, (lo + hi) \div 2 + 1, hi,
                   writeTriangles(mesh, shell, refs, lo, (lo + hi) \div 2, offset))

\* offset = writeTriangle(...): the loop goes on, for triangles lo..hi, at the
\* offset the last write returned.
writeRest(mesh, shell, refs, lo, hi, written) ==
    written \o writeTriangles(mesh, shell, refs, lo, hi, written[Len(written)].rec.next)

\* The offset after the last record written (84 when there is none).
endOffset(records) == IF Len(records) = 0 THEN 84 ELSE records[Len(records)].rec.next

\* The buffer of 80 + 4 + triangleCount * 50 bytes after the writes: its
\* length, the header text, bytes 80..83, the records written (each with the
\* vertices it was written from) and the final write offset.  A write past
\* the end of the buffer makes DataView throw a RangeError.
stlBuffer(triangleCount, records) ==
    IF endOffset(records) > 80 + 4 + triangleCount * 50
    THEN [threw |-> "RangeError"]
    ELSE [byteLength |-> 80 + 4 + triangleCount * 50,
          header |-> HEADER_TEXT,
          count |-> setUint32LE(triangleCount),
          records |-> records,
          offset |-> endOffset(records)]

\* The export of a mesh with its shell (Null when the shell is disabled).
exportMesh(mesh, shell) ==
    stlBuffer(countTriangles(mesh, shell),
              writeTriangles(mesh, shell, triangleRefs(mesh, shell), 1,
                             Len(triangleRefs(mesh, shell)), 84))

\* The ArrayBuffer exportToSTL returns; it is empty when there is no mesh.
exportToSTL(mesh, shellParams) ==
    IF mesh = Null THEN [byteLength |-> 0]
    ELSE exportMesh(mesh, generateShellMesh(mesh, shellParams))

\* ------------------------------------------------------------------------
\* Inputs
\* ------------------------------------------------------------------------

\* Largest ring count and slice count of a mesh, and largest sample count of
\* a guide curve handed to buildMesh.
MaxRings == 2
MaxSlices == 4
MaxPoints == 3

\* DEFAULT_PARAMS.horizontal and DEFAULT_PARAMS.vertical.
DefaultHorizontal ==
    [R |-> 145 * SC, r0 |-> 12700, a0_deg |-> 7500, a_deg |-> 45 * SC, k |-> 1800,
     rho |-> 300, b |-> 300, m |-> 800, q |-> 3700]

DefaultVertical ==
    [R |-> 95 * SC, r0 |-> 12700, a0_deg |-> 7500, a_deg |-> 30 * SC, k |-> 1800,
     rho |-> 300, b |-> 300, m |-> 800, q |-> 3700]

DefaultShapeBlend ==
    [nMouth |-> 4500, shapeStart |-> 50, shapeEnd |-> 850, shapePow |-> SC]

DefaultModBlend == [modStart |-> 150, modEnd |-> 750, modPow |-> SC]

DefaultMod == [enabled |-> FALSE, base |-> 300, amp |-> 500, freq |-> 2 * SC, exp |-> 4 * SC]

DefaultShell == [enabled |-> FALSE, thickness |-> 3 * SC, throatCap |-> FALSE, mouthCap |-> TRUE]

\* Profiles within the slider ranges; the throat of the second and third is
\* wider than the mouth, which leaves no real solution.
Profiles ==
    {DefaultHorizontal, DefaultVertical,
     [DefaultHorizontal EXCEPT !.R = 40 * SC, !.r0 = 50 * SC],
     [DefaultVertical EXCEPT !.R = 30 * SC, !.r0 = 50 * SC, !.a0_deg = 0]}

ShapeBlends ==
    {DefaultShapeBlend,
     [nMouth |-> 10 * SC, shapeStart |-> 0, shapeEnd |-> 200, shapePow |-> 300],
     [nMouth |-> 2 * SC, shapeStart |-> 600, shapeEnd |-> SC, shapePow |-> 4 * SC]}

ModBlends ==
    {DefaultModBlend,
     [modStart |-> 0, modEnd |-> 300, modPow |-> 2 * SC],
     [modStart |-> 500, modEnd |-> 900, modPow |-> 500]}

DiagonalMods ==
    {DefaultMod,
     [DefaultMod EXCEPT !.enabled = TRUE],
     [DefaultMod EXCEPT !.enabled = TRUE, !.freq = 2300],
     [enabled |-> TRUE, base |-> 50, amp |-> 1500, freq |-> 2 * SC, exp |-> 12 * SC]}

CardinalMods ==
    {DefaultMod,
     [enabled |-> TRUE, base |-> 50, amp |-> 1500, freq |-> SC, exp |-> 12 * SC]}

ShellParamsSet ==
    [enabled : BOOLEAN, thickness : {500, 3 * SC}, throatCap : BOOLEAN, mouthCap : BOOLEAN]

Resolutions == [rings : 1..MaxRings, slices : 1..MaxSlices]

\* A guide curve of n + 1 samples with y = y0 + dy * i and x = dx * i.
GuideCurve(n, y0, dy, dx) ==
    [points |-> [i \in 0..n |-> [t |-> RoundDiv(i * SC, n), x |-> dx * i, y |-> y0 + dy * i]],
     L |-> dx * n, c1 |-> 0, c2 |-> 0, c3 |-> 0]

HGuides ==
    {GuideCurve(n, 12700, 20 * SC, 10 * SC) : n \in 1..MaxPoints}
    \cup {GuideCurve(MaxPoints, 8 * SC, -2 * SC, 5 * SC)}

VGuides == {GuideCurve(MaxPoints, 12700, 10 * SC, 10 * SC), GuideCurve(1, 5 * SC, 0, SC)}

\* Meshes handed to the shell generator and the encoder: a cone, a cone whose
\* seam is open, a mesh collapsed to one point, and scattered points.
MeshKinds == {"cone", "open", "point", "scatter"}

MeshPoint(kind, ri, si, S) ==
    LET theta == RoundDiv(TWO_PI * (si % S), S)
        rad   == 10 * SC + 4 * SC * ri
        cone  == <<Mul(rad, Cos(theta)), Mul(rad, Sin(theta)), 5 * SC * ri>>
    IN  IF kind = "cone" THEN cone
        ELSE IF kind = "open"
        THEN (IF si = S THEN <<cone[1] + 3 * SC, cone[2], cone[3]>> ELSE cone)
        ELSE IF kind = "point" THEN <<0, 0, 0>>
        ELSE <<((((7 * ri + 3 * si + 1) * 37) % 11) - 5) * SC,
               ((((5 * ri + 2 * si + 3) * 29) % 13) - 6) * SC,
               (((3 * ri + si + 2) * 17) % 7) * SC>>

MkMesh(kind, R, S) ==
    [rings |-> [ri \in 0..R |->
                  [t |-> RoundDiv(ri * SC, R),
                   ring |-> [si \in 0..S |-> MeshPoint(kind, ri, si, S)],
                   xH |-> 5 * SC * ri, yH |-> 10 * SC + 4 * SC * ri,
                   yV |-> 10 * SC + 4 * SC * ri, n |-> 2 * SC]],
     numSlices |-> S]

Meshes == {MkMesh(kind, R, S) : kind \in MeshKinds, R \in 1..MaxRings, S \in 1..MaxSlices}

\* ------------------------------------------------------------------------
\* The state machine: the functions applied in the order of the data flow
\* (useMeshData, then the STL export).
\* ------------------------------------------------------------------------

\* The state the application starts in.
DEFAULT_PARAMS ==
    [horizontal |-> DefaultHorizontal, vertical |-> DefaultVertical,
     shapeBlend |-> DefaultShapeBlend, modBlend |-> DefaultModBlend,
     diagonalMod |-> DefaultMod, cardinalMod |-> DefaultMod,
     meshResolution |-> [rings |-> 50, slices |-> 72],
     shellParams |-> DefaultShell, visualizationMode |-> "3d"]

\* The defaults at the largest resolution of the bounded runs: the state
\* while a library function is called on its own.
DefaultState ==
    [DEFAULT_PARAMS EXCEPT !.meshResolution = [rings |-> MaxRings, slices |-> MaxSlices]]

\* Parameters chosen, nothing computed.
Init ==
    /\ pc = "params"
    /\ state \in [horizontal : Profiles, vertical : Profiles,
                  shapeBlend : {DefaultShapeBlend}, modBlend : {DefaultModBlend},
                  diagonalMod : {DefaultMod, [DefaultMod EXCEPT !.enabled = TRUE]},
                  cardinalMod : {DefaultMod},
                  meshResolution : [rings : 1..MaxRings, slices : {MaxSlices}],
                  shellParams : {DefaultShell, [DefaultShell EXCEPT !.enabled = TRUE]}]
    /\ hData = Null
    /\ vData = Null
    /\ meshData = Null
    /\ metrics = Null
    /\ shellData = Null
    /\ stl = Null
    /\ call = Null
    /\ ret = Null
    /\ steps = 0

\* The arguments of buildMesh: every shape blend with every resolution and
\* guide curve, and every modulation setting on the finest resolution.
MeshInputs ==
    [shapeBlend : ShapeBlends, modBlend : {DefaultModBlend},
     diagonalMod : {DefaultMod}, cardinalMod : {DefaultMod},
     meshResolution : Resolutions, hData : HGuides, vData : VGuides]
    \cup
    [shapeBlend : {DefaultShapeBlend}, modBlend : ModBlends,
     diagonalMod : DiagonalMods, cardinalMod : CardinalMods,
     meshResolution : [rings : {MaxRings}, slices : {MaxSlices - 1, MaxSlices}],
     hData : {GuideCurve(MaxPoints, 12700, 20 * SC, 10 * SC)},
     vData : {GuideCurve(MaxPoints, 12700, 10 * SC, 10 * SC)}]

\* buildMesh about to be called.
InitMesh ==
    /\ pc = "guides"
    /\ \E in \in MeshInputs :
         /\ state = [horizontal |-> DefaultHorizontal, vertical |-> DefaultVertical,
                     shapeBlend |-> in.shapeBlend, modBlend |-> in.modBlend,
                     diagonalMod |-> in.diagonalMod, cardinalMod |-> in.cardinalMod,
                     meshResolution |-> in.meshResolution, shellParams |-> DefaultShell]
         /\ hData = in.hData
         /\ vData = in.vData
    /\ meshData = Null
    /\ metrics = Null
    /\ shellData = Null
    /\ stl = Null
    /\ call = Null
    /\ ret = Null
    /\ steps = 0

\* generateShellMesh and exportToSTL about to be called with any mesh (or none).
InitShell ==
    /\ pc = "metrics"
    /\ state \in [horizontal : {DefaultHorizontal}, vertical : {DefaultVertical},
                  shapeBlend : {DefaultShapeBlend}, modBlend : {DefaultModBlend},
                  diagonalMod : {DefaultMod}, cardinalMod : {DefaultMod},
                  meshResolution : {[rings |-> 50, slices |-> 72]},
                  shellParams : ShellParamsSet]
    /\ hData = Null
    /\ vData = Null
    /\ meshData \in Meshes \cup {Null}
    /\ metrics = Null
    /\ shellData = Null
    /\ stl = Null
    /\ call = Null
    /\ ret = Null
    /\ steps = 0

ComputeGuides ==
    /\ pc = "params"
    /\ hData' = computeROSSE(state.horizontal, DEFAULT_NUM_POINTS)
    /\ vData' = computeROSSE(state.vertical, DEFAULT_NUM_POINTS)
    /\ pc' = "guides"
    /\ UNCHANGED <<state, meshData, metrics, shellData, stl, call, ret, steps>>

BuildMesh ==
    /\ pc = "guides"
    /\ meshData' = buildMesh(hData, vData, state.shapeBlend, state.modBlend,
                             state.diagonalMod, state.cardinalMod,
                             state.meshResolution.rings, state.meshResolution.slices)
    /\ pc' = "mesh"
    /\ UNCHANGED <<state, hData, vData, metrics, shellData, stl, call, ret, steps>>

ComputeMetrics ==
    /\ pc = "mesh"
    /\ metrics' = computeMeshMetrics(meshData)
    /\ pc' = "metrics"
    /\ UNCHANGED <<state, hData, vData, meshData, shellData, stl, call, ret, steps>>

\* GenerateShell offsetting the points in place: the rings of the input mesh
\* receive the outer points.
GenerateShellInPlace ==
    /\ pc = "metrics"
    /\ shellData' = generateShellMesh(meshData, state.shellParams)
    /\ meshData' = IF shellData' = Null THEN meshData
                   ELSE [meshData EXCEPT !.rings =
                           [ri \in DOMAIN meshData.rings |->
                              [meshData.rings[ri] EXCEPT !.ring = shellData'.outerRings[ri]]]]
    /\ pc' = "shell"
    /\ UNCHANGED <<state, hData, vData, metrics, stl, call, ret, steps>>

GenerateShell ==
    /\ pc = "metrics"
    /\ shellData' = generateShellMesh(meshData, state.shellParams)
    /\ pc' = "shell"
    /\ UNCHANGED <<state, hData, vData, meshData, metrics, stl, call, ret, steps>>

ExportSTL ==
    /\ pc = "shell"
    /\ stl' = exportToSTL(meshData, state.shellParams)
    /\ pc' = "exported"
    /\ UNCHANGED <<state, hData, vData, meshData, metrics, shellData, call, ret, steps>>

Next == ComputeGuides \/ BuildMesh \/ ComputeMetrics \/ GenerateShell \/ ExportSTL

Spec == Init /\ [][Next]_vars

NextMesh == BuildMesh \/ ComputeMetrics

SpecMesh == InitMesh /\ [][NextMesh]_vars

NextShell == GenerateShell \/ ExportSTL

SpecShell == InitShell /\ [][NextShell]_vars

\* Profiles handed to computeROSSE alone: every apex shift with every bending
\* factor, and a mouth radius just below the throat radius (L < 0).
ProfileInputs ==
    {[DefaultHorizontal EXCEPT !.m = m, !.b = b] : m \in {300, 500, 800, SC}, b \in {0, 300, 800}}
    \cup {[DefaultHorizontal EXCEPT !.R = 12600, !.b = 0]}

\* computeROSSE about to be called for both guides.
InitProfile ==
    /\ pc = "params"
    /\ state \in [horizontal : ProfileInputs,
                  vertical : {DefaultVertical,
                              [DefaultVertical EXCEPT !.rho = 100, !.m = 500],
                              [DefaultVertical EXCEPT !.rho = 600, !.m = 200, !.b = 800],
                              [DefaultVertical EXCEPT !.q = 1500, !.b = 0]},
                  shapeBlend : {DefaultShapeBlend}, modBlend : {DefaultModBlend},
                  diagonalMod : {DefaultMod}, cardinalMod : {DefaultMod},
                  meshResolution : {[rings |-> MaxRings, slices |-> MaxSlices]},
                  shellParams : {DefaultShell}]
    /\ hData = Null
    /\ vData = Null
    /\ meshData = Null
    /\ metrics = Null
    /\ shellData = Null
    /\ stl = Null
    /\ call = Null
    /\ ret = Null
    /\ steps = 0

SpecProfile == InitProfile /\ [][ComputeGuides]_vars

\* Arguments of the blend functions: t below, inside and above the windows,
\* proper windows (start < end) and degenerate ones (start >= end), powers
\* from 0 up, and end values in both orders.
BlendTs == {-500, 0, 50, 200, 250, 400, 500, 600, 750, 850, SC, 1500}

BlendWindows ==
    {[start |-> 0, end |-> SC], [start |-> 250, end |-> 750], [start |-> 50, end |-> 850],
     [start |-> 500, end |-> 500], [start |-> 800, end |-> 200]}

BlendPowers == {0, 300, SC, 4 * SC}

BlendEnds == {[a |-> 2 * SC, b |-> 4500], [a |-> 12700, b |-> 8 * SC]}

BlendCalls ==
    {[t |-> t, start |-> w.start, end |-> w.end, power |-> p, a |-> e.a, b |-> e.b] :
        t \in BlendTs, w \in BlendWindows, p \in BlendPowers, e \in BlendEnds}

\* A blend function about to be called.
InitBlend ==
    /\ pc = "call"
    /\ state = DefaultState
    /\ call \in BlendCalls
    /\ ret = Null
    /\ steps = 0
    /\ hData = Null
    /\ vData = Null
    /\ meshData = Null
    /\ metrics = Null
    /\ shellData = Null
    /\ stl = Null

Smoothstep ==
    /\ pc = "call"
    /\ "start" \in DOMAIN call
    /\ ret' = [fn |-> "smoothstep", value |-> smoothstep(call.t, call.start, call.end)]
    /\ pc' = "returned"
    /\ UNCHANGED <<state, hData, vData, meshData, metrics, shellData, stl, call, steps>>

PoweredSmoothstep ==
    /\ pc = "call"
    /\ "start" \in DOMAIN call
    /\ ret' = [fn |-> "poweredSmoothstep",
               value |-> poweredSmoothstep(call.t, call.start, call.end, call.power)]
    /\ pc' = "returned"
    /\ UNCHANGED <<state, hData, vData, meshData, metrics, shellData, stl, call, steps>>

SmoothLerp ==
    /\ pc = "call"
    /\ "start" \in DOMAIN call
    /\ ret' = [fn |-> "smoothLerp",
               value |-> smoothLerp(call.a, call.b, call.t, call.start, call.end, call.power)]
    /\ pc' = "returned"
    /\ UNCHANGED <<state, hData, vData, meshData, metrics, shellData, stl, call, steps>>

NextBlend == Smoothstep \/ PoweredSmoothstep \/ SmoothLerp

SpecBlend == InitBlend /\ [][NextBlend]_vars

\* Arguments of the lookups: t below 0, inside [0, 1] and above 1.
LookupTs == {-SC, -400, -10, 0, 100, 333, 500, 667, 900, SC, 1200, 5 * SC}

LookupCalls == [points : {g.points : g \in HGuides \cup VGuides}, t : LookupTs]

\* lookupX or lookupY about to be called.
InitLookup ==
    /\ pc = "call"
    /\ state = DefaultState
    /\ call \in LookupCalls
    /\ ret = Null
    /\ steps = 0
    /\ hData = Null
    /\ vData = Null
    /\ meshData = Null
    /\ metrics = Null
    /\ shellData = Null
    /\ stl = Null

\* points[index].y; reading a property of points[index] throws a TypeError
\* when index is not an index of the array (points[index] is undefined).
LookupY ==
    /\ pc = "call"
    /\ "points" \in DOMAIN call
    /\ ret' = IF lookupIndex(call.points, call.t) \in DOMAIN call.points
              THEN [fn |-> "lookupY", index |-> lookupIndex(call.points, call.t),
                    value |-> lookupY(call.points, call.t)]
              ELSE [fn |-> "lookupY", index |-> lookupIndex(call.points, call.t),
                    error |-> "TypeError"]
    /\ pc' = "returned"
    /\ UNCHANGED <<state, hData, vData, meshData, metrics, shellData, stl, call, steps>>

LookupX ==
    /\ pc = "call"
    /\ "points" \in DOMAIN call
    /\ ret' = IF lookupIndex(call.points, call.t) \in DOMAIN call.points
              THEN [fn |-> "lookupX", index |-> lookupIndex(call.points, call.t),
                    value |-> lookupX(call.points, call.t)]
              ELSE [fn |-> "lookupX", index |-> lookupIndex(call.points, call.t),
                    error |-> "TypeError"]
    /\ pc' = "returned"
    /\ UNCHANGED <<state, hData, vData, meshData, metrics, shellData, stl, call, steps>>

NextLookup == LookupY \/ LookupX

SpecLookup == InitLookup /\ [][NextLookup]_vars

\* Ring records for computeMeshMetrics: a throat ring, a round mouth ring and
\* a wide mouth ring.
MetricRings ==
    {[t |-> 0, ring |-> [si \in 0..1 |-> <<12700, 0, 0>>],
      xH |-> 0, yH |-> 12700, yV |-> 12700, n |-> 2 * SC],
     [t |-> SC, ring |-> [si \in 0..1 |-> <<40 * SC, 0, 30 * SC>>],
      xH |-> 30 * SC, yH |-> 40 * SC, yV |-> 40 * SC, n |-> 2 * SC],
     [t |-> SC, ring |-> [si \in 0..1 |-> <<145 * SC, 0, 52 * SC>>],
      xH |-> 52 * SC, yH |-> 145 * SC, yV |-> 95 * SC, n |-> 4500]}

\* Meshes of 0 to MaxRings + 1 such rings, the empty ring list included.
MetricMeshes ==
    {[rings |-> rs, numSlices |-> 1] :
        rs \in UNION {[0..(len - 1) -> MetricRings] : len \in 0..(MaxRings + 1)}}

\* computeMeshMetrics about to be called with any mesh (or none).
InitMetrics ==
    /\ pc = "mesh"
    /\ state = DefaultState
    /\ meshData \in MetricMeshes \cup Meshes \cup {Null}
    /\ hData = Null
    /\ vData = Null
    /\ metrics = Null
    /\ shellData = Null
    /\ stl = Null
    /\ call = Null
    /\ ret = Null
    /\ steps = 0

SpecMetrics == InitMetrics /\ [][ComputeMetrics]_vars

\* Mesh resolutions up to the default one of 50 rings and 72 slices.
DefaultResolutions == [rings : {1, 2, 5, 10, 25, 50}, slices : {4, 8, 12, 36, 72}]

\* The application started with the default parameters, at the default
\* resolution or a coarser one.
InitDefault ==
    /\ pc = "params"
    /\ \E res \in DefaultResolutions : state = [DEFAULT_PARAMS EXCEPT !.meshResolution = res]
    /\ hData = Null
    /\ vData = Null
    /\ meshData = Null
    /\ metrics = Null
    /\ shellData = Null
    /\ stl = Null
    /\ call = Null
    /\ ret = Null
    /\ steps = 0

NextDefault == ComputeGuides \/ BuildMesh \/ ComputeMetrics

SpecDefault == InitDefault /\ [][NextDefault]_vars

\* ------------------------------------------------------------------------
\* Properties of the export (under SpecShell)
\* ------------------------------------------------------------------------

\* The export has run on a mesh and returned a buffer.
Exported == pc = "exported" /\ meshData # Null /\ "records" \in DOMAIN stl

\* The vertex a written corner stands for: seam copies (slice 0 and slice
\* numSlices of a ring) are one vertex, and meshData.rings[ri].ring is the
\* array shellData.innerRings[ri].
seamVertex(ref, numSlices) ==
    <<IF ref[1] = "outer" THEN "outer" ELSE "inner", ref[2], ref[3] % numSlices>>

\* The three directed edges of record k.
triangleEdges(records, k, numSlices) ==
    LET a == seamVertex(records[k].refs[1], numSlices)
        b == seamVertex(records[k].refs[2], numSlices)
        c == seamVertex(records[k].refs[3], numSlices)
    IN  <<<<a, b>>, <<b, c>>, <<c, a>>>>

\* How many (triangle, side) pairs traverse the directed edge e.
edgeUses(records, e, numSlices) ==
    Cardinality({ks \in (1..Len(records)) \X (1..3) :
                   triangleEdges(records, ks[1], numSlices)[ks[2]] = e})

\* C1: with the shell enabled and at least three slices, every edge of the
\* written triangle set is traversed exactly once in each direction, so it
\* belongs to exactly two triangles, which traverse it in opposite directions.
C1_Watertight ==
    (Exported /\ shellData # Null /\ meshData.numSlices >= 3) =>
        \A k \in 1..Len(stl.records) : \A j \in 1..3 :
            LET e == triangleEdges(stl.records, k, meshData.numSlices)[j]
            IN  /\ e[1] # e[2]
                /\ edgeUses(stl.records, e, meshData.numSlices) = 1
                /\ edgeUses(stl.records, <<e[2], e[1]>>, meshData.numSlices) = 1

\* A shelled mesh of the largest size has been exported.
C1_Witness ==
    /\ Exported
    /\ shellData # Null
    /\ meshData.numSlices = MaxSlices
    /\ Length(meshData.rings) = MaxRings + 1
    /\ Len(stl.records) = 4 * MaxRings * MaxSlices + 4 * MaxSlices

\* The triangle count the format calls for: R rings of quads, S slices.
expectedTriangles(R, S, shellEnabled) ==
    IF shellEnabled THEN 4 * R * S + 4 * S ELSE 2 * R * S

\* C2: countTriangles is 2RS without the shell and 4RS + 4S with it, and the
\* buffer exportToSTL returns is 80 + 4 + 50 * count bytes long.
C2_TriangleCount ==
    (pc = "exported" /\ meshData # Null) =>
        LET R     == Length(meshData.rings) - 1
            S     == meshData.numSlices
            count == expectedTriangles(R, S, state.shellParams.enabled)
        IN  /\ countTriangles(meshData, shellData) = count
            /\ "byteLength" \in DOMAIN stl
            /\ stl.byteLength = 80 + 4 + 50 * count

\* A shelled mesh of the largest ring count has been exported.
C2_Witness ==
    /\ Exported
    /\ shellData # Null
    /\ state.shellParams.enabled
    /\ Length(meshData.rings) = MaxRings + 1
    /\ stl.byteLength = 84 + 50 * (4 * MaxRings * meshData.numSlices + 4 * meshData.numSlices)

\* C3: the little-endian count at byte 80 is the number of records written,
\* record k starts at byte 84 + 50k, and the last write ends at the end of
\* the buffer, shell enabled or not.
C3_CountMatchesRecords ==
    (pc = "exported" /\ meshData # Null) =>
        /\ "records" \in DOMAIN stl
        /\ getUint32LE(stl.count) = Len(stl.records)
        /\ \A k \in 1..Len(stl.records) : stl.records[k].rec.offset = 84 + 50 * (k - 1)
        /\ stl.offset = stl.byteLength

\* An unshelled export has written its records up to the end of the buffer.
C3_Witness ==
    /\ Exported
    /\ shellData = Null
    /\ Len(stl.records) = 2 * MaxRings * MaxSlices
    /\ stl.records[Len(stl.records)].rec.next = stl.byteLength

\* C6: every ring of the outer surface is closed, outerRings[r][0] being
\* outerRings[r][numSlices], whatever the mesh, the normals and the thickness.
C6_OuterSeamClosed ==
    (pc \in {"shell", "exported"} /\ shellData # Null) =>
        \A r \in DOMAIN shellData.outerRings :
            shellData.outerRings[r][0] = shellData.outerRings[r][shellData.numSlices]

\* A shell has been generated around a mesh whose own seam is open.
C6_Witness ==
    /\ pc = "shell"
    /\ shellData # Null
    /\ \E r \in DOMAIN meshData.rings :
         meshData.rings[r].ring[0] # meshData.rings[r].ring[meshData.numSlices]

\* The records of the inner surface, which come first in the file.
innerRecords(records, mesh) ==
    [k \in 1..(2 * (Length(mesh.rings) - 1) * mesh.numSlices) |-> records[k].rec]

\* C8: innerRings are the points of the input mesh, and the inner-surface
\* triangles of the file are the ones written with the shell disabled.
C8_InnerSurfaceUnchanged ==
    /\ (pc \in {"shell", "exported"} /\ shellData # Null) =>
           \A ri \in DOMAIN meshData.rings : \A si \in 0..meshData.numSlices :
               /\ ri \in DOMAIN shellData.innerRings
               /\ si \in DOMAIN shellData.innerRings[ri]
               /\ shellData.innerRings[ri][si] = meshData.rings[ri].ring[si]
    /\ (Exported /\ shellData # Null) =>
           innerRecords(stl.records, meshData)
               = innerRecords(exportToSTL(meshData, DefaultShell).records, meshData)

\* A shelled export of a mesh whose outer surface differs from the inner one.
C8_Witness ==
    /\ Exported
    /\ shellData # Null
    /\ state.shellParams.thickness # DefaultShell.thickness
    /\ shellData.outerRings # shellData.innerRings
    /\ Len(stl.records) > 2 * (Length(meshData.rings) - 1) * meshData.numSlices

\* ------------------------------------------------------------------------
\* Properties of the pipeline (under Spec)
\* ------------------------------------------------------------------------

\* C4: an unsolvable profile yields no partial geometry: computeROSSE is null
\* when disc < 0, buildMesh is null when a guide curve is null, and for a
\* null mesh the metrics are null and the exported buffer is empty.
C4_NoPartialGeometry ==
    /\ pc # "params" =>
         /\ rosseConsts(state.horizontal).disc < 0 => hData = Null
         /\ rosseConsts(state.vertical).disc < 0 => vData = Null
    /\ pc \in {"mesh", "metrics", "shell", "exported"} =>
         ((hData = Null \/ vData = Null) => meshData = Null)
    /\ pc \in {"metrics", "shell", "exported"} => (meshData = Null => metrics = Null)
    /\ pc \in {"shell", "exported"} => (meshData = Null => shellData = Null)
    /\ pc = "exported" => (meshData = Null => stl = [byteLength |-> 0])

\* The whole pipeline has run on a horizontal profile with disc < 0 and a
\* solvable vertical one.
C4_Witness ==
    /\ pc = "exported"
    /\ rosseConsts(state.horizontal).disc < 0
    /\ vData # Null
    /\ meshData = Null
    /\ stl.byteLength = 0

\* ------------------------------------------------------------------------
\* Properties of the mesh (under SpecMesh)
\* ------------------------------------------------------------------------

\* buildMesh has returned a mesh.
MeshBuilt == pc \in {"mesh", "metrics"} /\ meshData # Null

\* C5: in every mesh buildMesh returns, the point at slice 0 of every ring is
\* the point at slice numSlices, for all shape-blend and modulation parameters.
C5_MeshSeamClosed ==
    MeshBuilt =>
        \A ri \in DOMAIN meshData.rings :
            meshData.rings[ri].ring[0] = meshData.rings[ri].ring[meshData.numSlices]

\* C7: a mesh has numRings + 1 rings of numSlices + 1 points each, and ring ri
\* carries t = ri / numRings, rising strictly from 0 at the throat to 1 at the
\* mouth.
C7_RingStructure ==
    MeshBuilt =>
        LET numRings  == state.meshResolution.rings
            numSlices == state.meshResolution.slices
        IN  /\ DOMAIN meshData.rings = 0..numRings
            /\ Length(meshData.rings) = numRings + 1
            /\ \A ri \in 0..numRings :
                 /\ DOMAIN meshData.rings[ri].ring = 0..numSlices
                 /\ Length(meshData.rings[ri].ring) = numSlices + 1
                 /\ meshData.rings[ri].t = RoundDiv(ri * SC, numRings)
                 /\ ri < numRings => meshData.rings[ri].t < meshData.rings[ri + 1].t
            /\ meshData.rings[0].t = 0
            /\ meshData.rings[numRings].t = SC

\* A mesh of the largest resolution has been built.
C7_Witness ==
    /\ MeshBuilt
    /\ state.meshResolution = [rings |-> MaxRings, slices |-> MaxSlices]
    /\ Length(meshData.rings) = MaxRings + 1

\* The multiplier buildMesh applies at ring ri, slice si; prep is the value
\* prepModParams returned.
multiplierAt(ri, si, prep) ==
    combinedModulation(RoundDiv(TWO_PI * si, state.meshResolution.slices),
                       meshData.rings[ri].t, prep, state.modBlend)

\* The ModulationPrep buildMesh computes from the state.
statePrep == prepModParams(state.diagonalMod, state.cardinalMod, DEFAULT_NUM_SAMPLES)

\* Every multiplier of the mesh is at least the floor.
floorHolds(prep) ==
    \A ri \in DOMAIN meshData.rings : \A si \in 0..meshData.numSlices :
        multiplierAt(ri, si, prep) >= MOD_FLOOR

\* Some multiplier of the mesh is the floor itself.
floorReached(prep) ==
    \E ri \in DOMAIN meshData.rings : \E si \in 0..meshData.numSlices :
        multiplierAt(ri, si, prep) = MOD_FLOOR

\* C9: combinedModulation returns at least 0.1 at every angle and every t of
\* the mesh, for every blend window and every combination of enabled
\* patterns, so no point is scaled by zero or by a negative factor.
C9_ModulationFloor == MeshBuilt => floorHolds(statePrep)

\* Both patterns are enabled and pull the multiplier of some point down to
\* the floor.
C9_Witness ==
    /\ pc = "mesh"
    /\ meshData # Null
    /\ state.diagonalMod.enabled
    /\ state.cardinalMod.enabled
    /\ floorReached(statePrep)

\* C10: with 0 <= shapeStart < shapeEnd <= 1 and shapePow > 0 the first ring
\* has n = 2 and yH = yV = r0, whatever nMouth and the guide curves are.
C10_ThroatRing ==
    (/\ MeshBuilt
     /\ 0 <= state.shapeBlend.shapeStart
     /\ state.shapeBlend.shapeStart < state.shapeBlend.shapeEnd
     /\ state.shapeBlend.shapeEnd <= SC
     /\ state.shapeBlend.shapePow > 0) =>
        /\ meshData.rings[0].t = 0
        /\ meshData.rings[0].n = 2 * SC
        /\ meshData.rings[0].yH = hData.points[0].y
        /\ meshData.rings[0].yV = hData.points[0].y

\* A throat ring built where the vertical guide starts away from r0, the
\* mouth exponent is not 2 and the blend window starts after t = 0.
C10_Witness ==
    /\ pc = "mesh"
    /\ meshData # Null
    /\ state.shapeBlend.shapeStart > 0
    /\ state.shapeBlend.shapeStart < state.shapeBlend.shapeEnd
    /\ state.shapeBlend.nMouth # 2 * SC
    /\ vData.points[0].y # hData.points[0].y
    /\ meshData.rings[0].yV = hData.points[0].y

\* The shape blend factor buildMesh uses for the ring at t.
shapeFactor(t) ==
    poweredSmoothstep(t, state.shapeBlend.shapeStart, state.shapeBlend.shapeEnd,
                      state.shapeBlend.shapePow)

\* C11: with shapeStart < shapeEnd, every ring at t >= shapeEnd is built with
\* blend factor 1: its n is nMouth and its yH and yV are the values lookupY
\* reads from the horizontal and the vertical guide curve at t.
C11_FullBlendPastEnd ==
    (MeshBuilt /\ state.shapeBlend.shapeStart < state.shapeBlend.shapeEnd) =>
        \A ri \in DOMAIN meshData.rings :
            meshData.rings[ri].t >= state.shapeBlend.shapeEnd =>
                /\ shapeFactor(meshData.rings[ri].t) = SC
                /\ meshData.rings[ri].n = state.shapeBlend.nMouth
                /\ meshData.rings[ri].yH = lookupY(hData.points, meshData.rings[ri].t)
                /\ meshData.rings[ri].yV = lookupY(vData.points, meshData.rings[ri].t)

\* A ring before the mouth lies past shapeEnd, where the guides are away from
\* r0 and from each other and the mouth exponent is not 2.
C11_Witness ==
    /\ pc = "mesh"
    /\ meshData # Null
    /\ state.shapeBlend.shapeStart < state.shapeBlend.shapeEnd
    /\ state.shapeBlend.nMouth # 2 * SC
    /\ \E ri \in DOMAIN meshData.rings :
         /\ meshData.rings[ri].t >= state.shapeBlend.shapeEnd
         /\ meshData.rings[ri].t < SC
         /\ meshData.rings[ri].n = state.shapeBlend.nMouth
         /\ meshData.rings[ri].yH # hData.points[0].y
         /\ meshData.rings[ri].yV # meshData.rings[ri].yH
         /\ meshData.rings[ri].yV = lookupY(vData.points, meshData.rings[ri].t)

RECURSIVE sumCombined(_, _, _, _, _)
\* The sum of combinedModulation(theta_i, 1, prep, modBlend) over the samples
\* i = lo..hi of numSamples evenly spaced angles (added in halves).
sumCombined(prep, modBlend, lo, hi, numSamples) ==
    IF lo > hi THEN 0
    ELSE IF lo = hi
    THEN combinedModulation(RoundDiv(TWO_PI * lo, numSamples), SC, prep, modBlend)
    ELSE LET mid == (lo + hi) \div 2
         IN  sumCombined(prep, modBlend, lo, mid, numSamples)
             + sumCombined(prep, modBlend, mid + 1, hi, numSamples)

\* The mean of the multiplier at the mouth over the angles prepModParams
\* sampled.
meanModulation(prep, modBlend) ==
    RoundDiv(sumCombined(prep, modBlend, 0, DEFAULT_NUM_SAMPLES - 1, DEFAULT_NUM_SAMPLES),
             DEFAULT_NUM_SAMPLES)

\* The tolerance of the mean, 0.01.
MeanTolerance == SC \div 100

\* C12: for enabled patterns prepared with 360 samples and a blend window that
\* ends at or before t = 1, the mean of combinedModulation at t = 1 over the
\* same 360 angles is 1.0 within the tolerance.
C12_MeanIsOne ==
    (/\ MeshBuilt
     /\ state.diagonalMod.enabled \/ state.cardinalMod.enabled
     /\ state.modBlend.modEnd <= SC) =>
        Abs(meanModulation(statePrep, state.modBlend) - SC) <= MeanTolerance

\* ------------------------------------------------------------------------
\* Properties of the profile (under SpecProfile)
\* ------------------------------------------------------------------------

\* The x values of the curve do not decrease from sample i to sample i + 1,
\* for every i whose successor lies at or before t = upTo.
xNonDecreasing(data, upTo) ==
    \A i \in DOMAIN data.points :
        (i + 1 \in DOMAIN data.points /\ data.points[i + 1].t <= upTo) =>
            data.points[i].x <= data.points[i + 1].x

\* The x values of the curve decrease somewhere.
xRollsBack(data) ==
    \E i \in DOMAIN data.points :
        i + 1 \in DOMAIN data.points /\ data.points[i].x > data.points[i + 1].x

\* The bending term of x(t) does not pull x back: b = 0 or m <= 0.5.
bendingForward(params) == params.b = 0 \/ params.m <= SC \div 2

\* C13 as stated: for every profile with disc >= 0 the x values computeROSSE
\* returns are non-decreasing in the sample index.
C13_XNonDecreasing ==
    pc = "guides" =>
        /\ hData # Null => xNonDecreasing(hData, SC)
        /\ vData # Null => xNonDecreasing(vData, SC)

\* C13 amended: with L >= 0 and a bending term that does not pull back, the
\* x values are non-decreasing over the samples up to the apex shift, t <= m.
C13_XNonDecreasingToApex ==
    pc = "guides" =>
        /\ (hData # Null /\ hData.L >= 0 /\ bendingForward(state.horizontal)) =>
               xNonDecreasing(hData, state.horizontal.m)
        /\ (vData # Null /\ vData.L >= 0 /\ bendingForward(state.vertical)) =>
               xNonDecreasing(vData, state.vertical.m)

\* A solved profile with bending and its apex before t = 0.5 whose x rises
\* from the throat to the apex and rolls back somewhere after it.
C13_Witness ==
    /\ pc = "guides"
    /\ hData # Null
    /\ hData.L > 0
    /\ state.horizontal.b > 0
    /\ state.horizontal.m < SC \div 2
    /\ hData.points[0].x < hData.points[1].x
    /\ hData.points[1].x < hData.points[lookupIndex(hData.points, state.horizontal.m)].x
    /\ xNonDecreasing(hData, state.horizontal.m)
    /\ xRollsBack(hData)

\* ------------------------------------------------------------------------
\* Properties of the blend functions (under SpecBlend)
\* ------------------------------------------------------------------------

\* The named blend function has returned.
Returned(fn) == pc = "returned" /\ "fn" \in DOMAIN ret /\ ret.fn = fn

\* 3 s^2 - 2 s^3
cubic(s) == 3 * Sq(s) - 2 * Mul(Sq(s), s)

\* smoothstep over a proper window: 0 up to start, 1 from end on, the cubic
\* of s in between (to the rounding of the two ways of writing it), within
\* [0, 1] and not above its value at any larger t.
smoothstepShape(t, start, end, value) ==
    /\ t <= start => value = 0
    /\ t >= end => value = SC
    /\ (start < t /\ t < end) => Abs(value - cubic(Div(t - start, end - start))) <= 2
    /\ 0 <= value
    /\ value <= SC
    /\ \A t2 \in BlendTs : t2 >= t => smoothstep(t2, start, end) >= value

\* C14: for start < end, smoothstep is 0 for t <= start, 1 for t >= end, the
\* cubic 3s^2 - 2s^3 in between, non-decreasing in t and within [0, 1], and
\* poweredSmoothstep with a power > 0 has the same values 0 and 1 outside
\* the window.
C14_SmoothstepShape ==
    /\ (Returned("smoothstep") /\ call.start < call.end) =>
           smoothstepShape(call.t, call.start, call.end, ret.value)
    /\ (Returned("poweredSmoothstep") /\ call.start < call.end /\ call.power > 0) =>
           /\ call.t <= call.start => ret.value = 0
           /\ call.t >= call.end => ret.value = SC

\* smoothstep has returned a value strictly between 0 and 1 from inside a
\* proper window.
C14_Witness ==
    /\ Returned("smoothstep")
    /\ call.start < call.t
    /\ call.t < call.end
    /\ call.end < SC
    /\ 0 < ret.value
    /\ ret.value < SC
    /\ ret.value # Div(call.t - call.start, call.end - call.start)

\* The step a degenerate window gives: 0 below end, 1 from end on.
stepAt(t, end) == IF t >= end THEN SC ELSE 0

\* C15 as stated: when start >= end, smoothstep returns 0 for t < end and 1
\* for t >= end, and smoothLerp returns a below end and b at or above end,
\* whatever the power.
C15_DegenerateWindow ==
    /\ (Returned("smoothstep") /\ call.start >= call.end) =>
           ret.value = stepAt(call.t, call.end)
    /\ (Returned("smoothLerp") /\ call.start >= call.end) =>
           ret.value = (IF call.t < call.end THEN call.a ELSE call.b)

\* C15 amended: the same, for smoothLerp with a power > 0.
C15_DegenerateWindowPositivePower ==
    /\ (Returned("smoothstep") /\ call.start >= call.end) =>
           ret.value = stepAt(call.t, call.end)
    /\ (Returned("smoothLerp") /\ call.start >= call.end /\ call.power > 0) =>
           ret.value = (IF call.t < call.end THEN call.a ELSE lerp(call.a, call.b, SC))

\* smoothLerp has returned b at t = end of a window with start > end.
C15_Witness ==
    /\ Returned("smoothLerp")
    /\ call.start > call.end
    /\ call.t = call.end
    /\ call.power > 0
    /\ call.power # SC
    /\ call.a > call.b
    /\ ret.value = call.b

\* ------------------------------------------------------------------------
\* Properties of the lookups (under SpecLookup)
\* ------------------------------------------------------------------------

\* round(t * N) clamped to 0..N, for a curve of N + 1 samples.
nearestIndex(points, t) ==
    clamp(RoundDiv(t * (Length(points) - 1), SC), 0, Length(points) - 1)

\* C16: for every t, lookupX and lookupY read an index inside the sample
\* array and return the x or y of the sample at round(t * N) clamped to 0..N.
C16_LookupInRange ==
    (Returned("lookupY") \/ Returned("lookupX")) =>
        /\ ret.index \in DOMAIN call.points
        /\ ret.index = nearestIndex(call.points, call.t)
        /\ "value" \in DOMAIN ret
        /\ Returned("lookupY") => ret.value = call.points[nearestIndex(call.points, call.t)].y
        /\ Returned("lookupX") => ret.value = call.points[nearestIndex(call.points, call.t)].x

\* ------------------------------------------------------------------------
\* Inputs of the pipeline functions (under Spec)
\* ------------------------------------------------------------------------

\* C17: prepModParams and buildMesh leave the parameters and the guide
\* curves as they were, generateShellMesh leaves the parameters and the mesh
\* as they were, and exportToSTL leaves the parameters, the mesh and the
\* shell as they were: each step writes its result only.
C17_InputsUnchanged ==
    [][/\ state' = state
       /\ pc = "guides" => (hData' = hData /\ vData' = vData)
       /\ pc = "metrics" => meshData' = meshData
       /\ pc = "shell" => (meshData' = meshData /\ shellData' = shellData)]_vars

\* After the shell and the export, with modulation averaged and an outer
\* surface away from the inner one, the mesh is still the one buildMesh
\* returns for the guides and parameters, and the inner rings are its rings.
C17_Witness ==
    /\ pc = "exported"
    /\ meshData # Null
    /\ shellData # Null
    /\ state.diagonalMod.enabled
    /\ shellData.outerRings # shellData.innerRings
    /\ shellData.innerRings = [ri \in DOMAIN meshData.rings |-> meshData.rings[ri].ring]
    /\ meshData = buildMesh(hData, vData, state.shapeBlend, state.modBlend,
                            state.diagonalMod, state.cardinalMod,
                            state.meshResolution.rings, state.meshResolution.slices)

\* ------------------------------------------------------------------------
\* Properties of the metrics (under SpecMetrics)
\* ------------------------------------------------------------------------

\* C18: for a mesh with at least one ring the metrics are the throat radius
\* rings[0].yH, the depth rings[last].xH, the mouth width 2 * rings[last].yH
\* and the mouth height 2 * rings[last].yV; for no mesh and for an empty ring
\* list they are null.
C18_Metrics ==
    pc = "metrics" =>
        IF meshData = Null \/ DOMAIN meshData.rings = {} THEN metrics = Null
        ELSE LET last == Cardinality(DOMAIN meshData.rings) - 1
             IN  /\ metrics # Null
                 /\ metrics.throat = meshData.rings[0].yH
                 /\ metrics.depth = meshData.rings[last].xH
                 /\ metrics.mouthWidth = 2 * meshData.rings[last].yH
                 /\ metrics.mouthHeight = 2 * meshData.rings[last].yV

\* Metrics computed for a mesh of the largest ring count whose mouth is
\* wider than high and whose throat ring differs from the mouth ring.
C18_Witness ==
    /\ pc = "metrics"
    /\ meshData # Null
    /\ Length(meshData.rings) = MaxRings + 1
    /\ meshData.rings[MaxRings].yH > meshData.rings[MaxRings].yV
    /\ meshData.rings[0].yH < meshData.rings[MaxRings].yH
    /\ metrics # Null
    /\ metrics.mouthWidth > metrics.mouthHeight
    /\ metrics.throat < metrics.depth

\* ------------------------------------------------------------------------
\* The default design (under SpecDefault)
\* ------------------------------------------------------------------------

\* C19: with the default parameters, 50 rings and 72 slices, the mesh has 51
\* rings of 73 points each, and the metrics are a throat radius of about
\* 12.7 mm, a mouth width of about 290 mm, a mouth height of about 190 mm
\* and an axial depth between about 75 and 80 mm (each taken with a margin
\* of 1 mm).
C19_DefaultScenario ==
    (pc = "metrics" /\ state = DEFAULT_PARAMS) =>
        /\ meshData # Null
        /\ Length(meshData.rings) = 51
        /\ \A ri \in DOMAIN meshData.rings : Length(meshData.rings[ri].ring) = 73
        /\ metrics # Null
        /\ Abs(metrics.throat - 12700) <= SC
        /\ Abs(metrics.mouthWidth - 290 * SC) <= SC
        /\ Abs(metrics.mouthHeight - 190 * SC) <= SC
        /\ metrics.depth >= 74 * SC
        /\ metrics.depth <= 81 * SC

\* ------------------------------------------------------------------------
\* Properties of the vertex normals (under SpecShell)
\* ------------------------------------------------------------------------

\* A shell has been generated: shellData.normals is what
\* calculateVertexNormals returned.
ShellBuilt == pc \in {"shell", "exported"} /\ meshData # Null /\ shellData # Null

\* The rings a vertex of ring ri has quads on: ri - 1 and ri, where they exist.
quadRings(mesh, ri) == {ri - 1, ri} \cap (0..(Length(mesh.rings) - 2))

RECURSIVE sumFaceNormals(_, _)
\* The sum of the face normals of a set of quads <<ri, si>>.
sumFaceNormals(rings, quads) ==
    IF quads = {} THEN <<0, 0, 0>>
    ELSE LET q    == CHOOSE x \in quads : TRUE
             n    == faceNormal(rings, q[1], q[2])
             rest == sumFaceNormals(rings, quads \ {q})
         IN  <<n[1] + rest[1], n[2] + rest[2], n[3] + rest[3]>>

\* The sum over the quads on one side of the seam vertex of ring ri: the
\* quads of slice si.
sideSum(mesh, ri, si) == sumFaceNormals(mesh.rings, quadRings(mesh, ri) \X {si})

\* The sum over the quads on both sides of the seam vertex of ring ri.
seamSum(mesh, ri) ==
    LET first == sideSum(mesh, ri, 0)
        last  == sideSum(mesh, ri, mesh.numSlices - 1)
    IN  <<first[1] + last[1], first[2] + last[2], first[3] + last[3]>>

RECURSIVE countQuads(_, _, _, _)
\* How many times the quad loop adds to each vertex: addQuad run over the
\* quads k..numQuads-1 with <<1, 0, 0>> for the face normal.
countQuads(counts, k, numQuads, numSlices) ==
    IF k >= numQuads THEN counts
    ELSE countQuads(addQuad(counts, k \div numSlices, k % numSlices, numSlices + 1,
                            <<1, 0, 0>>),
                    k + 1, numQuads, numSlices)

\* The contribution count of every vertex of the mesh.
contributions(mesh) ==
    countQuads([i \in 0..(Length(mesh.rings) * (mesh.numSlices + 1) - 1) |-> <<0, 0, 0>>],
               0, (Length(mesh.rings) - 1) * mesh.numSlices, mesh.numSlices)

\* The seam normals of every ring are equal and are the normalised sum over
\* both sides; every other normal is the normalised sum over the quads
\* around its vertex, each added once: counts holds 4 on interior rings and
\* 2 on the first and the last ring.
normalsHold(mesh, normals, counts) ==
    LET S    == mesh.numSlices
        last == Length(mesh.rings) - 1
    IN  \A ri \in DOMAIN mesh.rings :
            /\ normals[ri * (S + 1)] = normals[ri * (S + 1) + S]
            /\ normals[ri * (S + 1)] = normalizeVec(seamSum(mesh, ri))
            /\ \A si \in 1..(S - 1) :
                 /\ normals[ri * (S + 1) + si]
                      = normalizeVec(sumFaceNormals(mesh.rings,
                                                    quadRings(mesh, ri) \X {si - 1, si}))
                 /\ counts[ri * (S + 1) + si][1] = (IF ri = 0 \/ ri = last THEN 2 ELSE 4)

\* C20: after calculateVertexNormals the normals of slice 0 and of slice
\* numSlices of every ring are equal, each the normalised sum of the face
\* normals of the quads on both sides of the seam, and every other vertex
\* has one contribution per incident quad: 4 on interior rings, 2 on the
\* first and the last ring.
C20_SeamNormals ==
    ShellBuilt => normalsHold(meshData, shellData.normals, contributions(meshData))

\* A shell around a mesh with an interior ring and vertices off the seam,
\* where the quads on the two sides of the seam of the interior ring add up
\* to different normals.
C20_Witness ==
    /\ ShellBuilt
    /\ Length(meshData.rings) = MaxRings + 1
    /\ meshData.numSlices = MaxSlices
    /\ normalizeVec(sideSum(meshData, 1, 0))
         # normalizeVec(sideSum(meshData, 1, meshData.numSlices - 1))
    /\ shellData.normals[meshData.numSlices + 1] = normalizeVec(seamSum(meshData, 1))
    /\ shellData.normals[meshData.numSlices + 1] # normalizeVec(sideSum(meshData, 1, 0))
    /\ shellData.normals[meshData.numSlices + 1] = shellData.normals[2 * meshData.numSlices + 1]

\* ------------------------------------------------------------------------
\* Properties of the outer surface (under SpecShell)
\* ------------------------------------------------------------------------

\* The point v moved by thickness along n, component by component.
offsetAlong(v, n, thickness) ==
    <<v[1] + Mul(n[1], thickness), v[2] + Mul(n[2], thickness), v[3] + Mul(n[3], thickness)>>

\* C21: the outer surface has as many rings as the mesh and as many points
\* per ring, and for every ring ri and slice si < numSlices the outer point
\* is the mesh point (ri, si) plus thickness times the normal stored at
\* ri * (numSlices + 1) + si.
C21_OuterOffset ==
    ShellBuilt =>
        /\ DOMAIN shellData.outerRings = DOMAIN meshData.rings
        /\ \A ri \in DOMAIN meshData.rings :
             /\ DOMAIN shellData.outerRings[ri] = DOMAIN meshData.rings[ri].ring
             /\ \A si \in 0..(meshData.numSlices - 1) :
                  shellData.outerRings[ri][si]
                    = offsetAlong(meshData.rings[ri].ring[si],
                                  shellData.normals[ri * (meshData.numSlices + 1) + si],
                                  state.shellParams.thickness)

\* A shell around the largest mesh where, on the last ring, neighbouring
\* vertices have different normals and the outer point lies off the mesh
\* point in all three components.
C21_Witness ==
    /\ ShellBuilt
    /\ Length(meshData.rings) = MaxRings + 1
    /\ meshData.numSlices = MaxSlices
    /\ shellData.normals[MaxRings * (MaxSlices + 1) + 1]
         # shellData.normals[MaxRings * MaxSlices + 1]
    /\ \A c \in 1..3 :
         shellData.outerRings[MaxRings][1][c] # meshData.rings[MaxRings].ring[1][c]
    /\ shellData.outerRings[MaxRings][1]
         = offsetAlong(meshData.rings[MaxRings].ring[1],
                       shellData.normals[MaxRings * (MaxSlices + 1) + 1],
                       state.shellParams.thickness)

\* ------------------------------------------------------------------------
\* Properties of the caps (under SpecShell)
\* ------------------------------------------------------------------------

\* The shell parameters with the two cap switches set to caps.
withCaps(shellParams, caps) ==
    [shellParams EXCEPT !.throatCap = caps.throatCap, !.mouthCap = caps.mouthCap]

\* The records of the strip at ring ri: those reading a vertex of innerRings[ri].
stripRecords(records, ri) ==
    {k \in DOMAIN records :
        \E c \in 1..3 : records[k].refs[c][1] = "inner" /\ records[k].refs[c][2] = ri}

unmodulatedRing(r, numSlices) ==
    [si \in 0..numSlices |->
       superellipse(r.xH, r.yH, r.yV, Cos(RoundDiv(TWO_PI * si, numSlices)),
                    Sin(RoundDiv(TWO_PI * si, numSlices)), Div(2 * SC, r.n), SC)]

\* Ring ri lies where the claim says the multiplier is 1: both patterns are
\* disabled, or the window is proper, the power positive and t <= modStart.
modulationOff(ri) ==
    \/ ~state.diagonalMod.enabled /\ ~state.cardinalMod.enabled
    \/ /\ state.modBlend.modStart < state.modBlend.modEnd
       /\ state.modBlend.modPow > 0
       /\ meshData.rings[ri].t <= state.modBlend.modStart

\* Every multiplier of the rings where the modulation is off is 1, and those
\* rings are the unmodulated superellipse.
unityHolds(prep) ==
    \A ri \in DOMAIN meshData.rings :
        modulationOff(ri) =>
            /\ \A si \in 0..meshData.numSlices : multiplierAt(ri, si, prep) = SC
            /\ meshData.rings[ri].ring = unmodulatedRing(meshData.rings[ri], meshData.numSlices)

\* C23: combinedModulation returns 1 at every angle when both patterns are
\* disabled, whatever t is, and for every combination of enabled patterns
\* when t <= modStart (modStart < modEnd, modPow > 0); the rings at those
\* stations are the unmodulated superellipse.
C23_UnityBeforeWindow == MeshBuilt => unityHolds(statePrep)

\* Some multiplier of ring ri differs from 1.
modulated(ri, prep) ==
    \E si \in 0..meshData.numSlices : multiplierAt(ri, si, prep) # SC

\* Both patterns are enabled, a ring after the throat lies at t <= modStart
\* and is the unmodulated superellipse, and the mouth ring is modulated.
C23_Witness ==
    /\ pc = "mesh"
    /\ meshData # Null
    /\ state.diagonalMod.enabled
    /\ state.cardinalMod.enabled
    /\ \E ri \in DOMAIN meshData.rings :
         /\ meshData.rings[ri].t > 0
         /\ meshData.rings[ri].t <= state.modBlend.modStart
         /\ meshData.rings[ri].ring = unmodulatedRing(meshData.rings[ri], meshData.numSlices)
    /\ modulated(Length(meshData.rings) - 1, statePrep)

\* ------------------------------------------------------------------------
\* Properties of zero-length vectors (under SpecShell)
\* ------------------------------------------------------------------------

\* The default unit vector.
UnitZ == <<0, 0, SC>>

\* The cross product the encoder normalises for record k.
recordCross(mesh, shell, refs) ==
    edgeCross(vertexAt(mesh, shell, refs[1]), vertexAt(mesh, shell, refs[2]),
              vertexAt(mesh, shell, refs[3]))

\* The sum the shell generator normalises for vertex (ri, si).
vertexSum(mesh, ri, si) ==
    IF si = 0 \/ si = mesh.numSlices THEN seamSum(mesh, ri)
    ELSE sumFaceNormals(mesh.rings, quadRings(mesh, ri) \X {si - 1, si})

\* Every quad with a zero cross product has face normal (0, 0, 1), and every
\* vertex whose face normals add up to zero has normal (0, 0, 1).
zeroNormalsHold(mesh, normals) ==
    /\ \A ri \in 0..(Length(mesh.rings) - 2) : \A si \in 0..(mesh.numSlices - 1) :
         edgeCross(mesh.rings[ri].ring[si], mesh.rings[ri].ring[si + 1],
                   mesh.rings[ri + 1].ring[si]) = <<0, 0, 0>>
            => faceNormal(mesh.rings, ri, si) = UnitZ
    /\ \A ri \in DOMAIN mesh.rings : \A si \in 0..mesh.numSlices :
         vertexSum(mesh, ri, si) = <<0, 0, 0>>
            => normals[ri * (mesh.numSlices + 1) + si] = UnitZ

\* Every triangle has its record of 50 bytes, and the record of a triangle
\* with a zero cross product holds the normal (0, 0, 1).
zeroRecordsHold(mesh, shell, buffer) ==
    /\ Len(buffer.records) = countTriangles(mesh, shell)
    /\ \A k \in 1..Len(buffer.records) :
         /\ buffer.records[k].rec.next - buffer.records[k].rec.offset = 50
         /\ DOMAIN buffer.records[k].rec = {"offset", "normal", "v1", "v2", "v3", "attr", "next"}
         /\ recordCross(mesh, shell, buffer.records[k].refs) = <<0, 0, 0>>
              => buffer.records[k].rec.normal = UnitZ

\* C24: a zero-length vector in a normal computation gives (0, 0, 1), in the
\* shell generator (face normals and vertex normals) and in the encoder, and
\* the record of a degenerate triangle is written in full, none being
\* skipped.
C24_ZeroVectorDefault ==
    /\ ShellBuilt => zeroNormalsHold(meshData, shellData.normals)
    /\ Exported => zeroRecordsHold(meshData, shellData, stl)

\* The export of a shelled mesh collapsed to one point: every face normal,
\* every vertex normal and every record normal is (0, 0, 1), and the records
\* of the largest mesh are all there.
C24_Witness ==
    /\ Exported
    /\ shellData # Null
    /\ Length(meshData.rings) = MaxRings + 1
    /\ meshData.numSlices = MaxSlices
    /\ \A ri \in DOMAIN meshData.rings : \A si \in 0..MaxSlices :
         meshData.rings[ri].ring[si] = <<0, 0, 0>>
    /\ \A i \in DOMAIN shellData.normals : shellData.normals[i] = UnitZ
    /\ Len(stl.records) = 4 * MaxRings * MaxSlices + 4 * MaxSlices
    /\ \A k \in 1..Len(stl.records) :
         /\ recordCross(meshData, shellData, stl.records[k].refs) = <<0, 0, 0>>
         /\ stl.records[k].rec.normal = UnitZ

\* ------------------------------------------------------------------------
\* Properties of the ring points (under SpecMesh)
\* ------------------------------------------------------------------------

\* Point p is the raw superellipse point of ring record r at angle theta
\* with both coordinates multiplied by mod, at the axial position r.xH.
scaledBy(p, r, theta, mod) ==
    /\ p[1] = Mul(Mul(r.yH * Sign(Cos(theta)), Pow(Abs(Cos(theta)), Div(2 * SC, r.n))), mod)
    /\ p[2] = Mul(Mul(r.yV * Sign(Sin(theta)), Pow(Abs(Sin(theta)), Div(2 * SC, r.n))), mod)
    /\ p[3] = r.xH

\* Every ring lies at the axial position lookupX reads from the horizontal
\* guide, and every point of it is scaled by the multiplier of its angle.
ringsPlanar(prep) ==
    \A ri \in DOMAIN meshData.rings :
        /\ meshData.rings[ri].xH = lookupX(hData.points, meshData.rings[ri].t)
        /\ \A si \in 0..meshData.numSlices :
             scaledBy(meshData.rings[ri].ring[si], meshData.rings[ri],
                      RoundDiv(TWO_PI * si, meshData.numSlices),
                      multiplierAt(ri, si, prep))

\* C25: in every ring buildMesh builds, every point has z equal to the xH of
\* the ring, which is taken from the horizontal guide curve, and x and y
\* equal to the raw superellipse coordinates multiplied by the one
\* modulation multiplier of that (theta, t).
C25_RingPlanarScaled == MeshBuilt => ringsPlanar(statePrep)

\* A modulated mouth ring away from the throat plane: a point off both axes
\* whose multiplier is not 1 and whose x and y both differ from the raw
\* coordinates.
C25_Witness ==
    /\ pc = "mesh"
    /\ meshData # Null
    /\ state.diagonalMod.enabled
    /\ meshData.rings[Length(meshData.rings) - 1].xH > 0
    /\ \E si \in 0..meshData.numSlices :
         LET r == meshData.rings[Length(meshData.rings) - 1]
             theta == RoundDiv(TWO_PI * si, meshData.numSlices)
         IN  /\ multiplierAt(Length(meshData.rings) - 1, si, statePrep) # SC
             /\ r.ring[si][3] = r.xH
             /\ r.ring[si][1] # Mul(r.yH * Sign(Cos(theta)), Pow(Abs(Cos(theta)), Div(2 * SC, r.n)))
             /\ r.ring[si][2] # Mul(r.yV * Sign(Sin(theta)), Pow(Abs(Sin(theta)), Div(2 * SC, r.n)))

\* ------------------------------------------------------------------------
\* The application state: the reducer of WaveguideContext, the controls that
\* dispatch to it, and the import of a design from a YAML file or a share
\* link.  A parsed document is a record; a field that the document does not
\* hold (undefined in the code) is a key outside the record's DOMAIN, and a
\* document that is no object at all is Null.
\* ------------------------------------------------------------------------

\* The user interactions a bounded run follows after the application mounted.
MaxInteractions == 2

\* The largest YAML text an import reads: 100 * 1024 characters.
MAX_YAML_SIZE == 102400

\* The ranges the validator accepts.
PARAM_RANGES ==
    [rosse |->
        [R |-> [min |-> 40 * SC, max |-> 350 * SC], r0 |-> [min |-> 6 * SC, max |-> 36 * SC],
         a0_deg |-> [min |-> 0, max |-> 20 * SC], a_deg |-> [min |-> 10 * SC, max |-> 60 * SC],
         k |-> [min |-> 300, max |-> 5 * SC], rho |-> [min |-> 50, max |-> 900],
         b |-> [min |-> 0, max |-> 800], m |-> [min |-> 500, max |-> SC],
         q |-> [min |-> SC, max |-> 10 * SC]],
     shapeBlend |->
        [nMouth |-> [min |-> 2 * SC, max |-> 10 * SC], shapeStart |-> [min |-> 0, max |-> 600],
         shapeEnd |-> [min |-> 200, max |-> SC], shapePow |-> [min |-> 300, max |-> 4 * SC]],
     modBlend |->
        [modStart |-> [min |-> 0, max |-> 600], modEnd |-> [min |-> 200, max |-> SC],
         modPow |-> [min |-> 500, max |-> 5 * SC]],
     modulation |->
        [base |-> [min |-> 50, max |-> SC], amp |-> [min |-> 0, max |-> 1500],
         freq |-> [min |-> 500, max |-> 6 * SC], exp |-> [min |-> SC, max |-> 12 * SC]],
     meshResolution |->
        [rings |-> [min |-> 20, max |-> 200], slices |-> [min |-> 36, max |-> 256]],
     shellParams |-> [thickness |-> [min |-> 500, max |-> 20 * SC]]]

\* validateNumber(obj.key, path, min, max, errors): the field is a number
\* (an absent field is undefined, not a number) within [min, max].
validateNumber(obj, key, min, max) ==
    /\ key \in DOMAIN obj
    /\ ~(obj[key] < min \/ obj[key] > max)

\* The object check of a parameter group, one validateNumber per range of
\* the group and one validateBoolean per flag: validateROSSEParams,
\* validateModulationParams, validateMeshResolution, validateShellParams and
\* the range part of the two blend validators.
validateParams(data, ranges, flags) ==
    /\ data # Null
    /\ \A key \in DOMAIN ranges : validateNumber(data, key, ranges[key].min, ranges[key].max)
    /\ \A key \in flags : key \in DOMAIN data /\ data[key] \in BOOLEAN

\* The ranges of the shape blend, then shapeStart < shapeEnd.
validateShapeBlendParams(data) ==
    /\ validateParams(data, PARAM_RANGES.shapeBlend, {})
    /\ ~(data.shapeStart >= data.shapeEnd)

\* The ranges of the modulation blend, then modStart < modEnd.
validateModulationBlendParams(data) ==
    /\ validateParams(data, PARAM_RANGES.modBlend, {})
    /\ ~(data.modStart >= data.modEnd)

\* The result of validating a parsed document: valid when it is an object
\* that holds every group, each group passes its validator, and the
\* visualization mode is one of the five modes.
validateWaveguideState(data) ==
    [valid |->
        /\ data # Null
        /\ "horizontal" \in DOMAIN data
        /\ validateParams(data.horizontal, PARAM_RANGES.rosse, {})
        /\ "vertical" \in DOMAIN data
        /\ validateParams(data.vertical, PARAM_RANGES.rosse, {})
        /\ "shapeBlend" \in DOMAIN data
        /\ validateShapeBlendParams(data.shapeBlend)
        /\ "modBlend" \in DOMAIN data
        /\ validateModulationBlendParams(data.modBlend)
        /\ "diagonalMod" \in DOMAIN data
        /\ validateParams(data.diagonalMod, PARAM_RANGES.modulation, {"enabled"})
        /\ "cardinalMod" \in DOMAIN data
        /\ validateParams(data.cardinalMod, PARAM_RANGES.modulation, {"enabled"})
        /\ "meshResolution" \in DOMAIN data
        /\ validateParams(data.meshResolution, PARAM_RANGES.meshResolution, {})
        /\ "shellParams" \in DOMAIN data
        /\ validateParams(data.shellParams, PARAM_RANGES.shellParams, {"enabled", "throatCap", "mouthCap"})
        /\ "visualizationMode" \in DOMAIN data
        /\ data.visualizationMode \in {"guides", "cross", "xmod", "3d", "blend"}]

\* The reducer with each update spread over the default group instead of
\* the group of the state.
waveguideReducerReplacing(s, action) ==
    LET update(group, key, value) == [s EXCEPT ![group] = (key :> value) @@ DEFAULT_PARAMS[group]]
        merged(group) ==
            IF group \in DOMAIN action.state
            THEN action.state[group] @@ DEFAULT_PARAMS[group]
            ELSE DEFAULT_PARAMS[group]
    IN CASE action.type = "UPDATE_H_PARAM" -> update("horizontal", action.param, action.value)
         [] action.type = "UPDATE_V_PARAM" -> update("vertical", action.param, action.value)
         [] action.type = "UPDATE_SHAPE_BLEND" -> update("shapeBlend", action.param, action.value)
         [] action.type = "UPDATE_MOD_BLEND" -> update("modBlend", action.param, action.value)
         [] action.type = "UPDATE_DIAGONAL_NUMBER" -> update("diagonalMod", action.param, action.value)
         [] action.type = "UPDATE_DIAGONAL_ENABLED" -> update("diagonalMod", "enabled", action.value)
         [] action.type = "UPDATE_CARDMOD_NUMBER" -> update("cardinalMod", action.param, action.value)
         [] action.type = "UPDATE_CARDMOD_ENABLED" -> update("cardinalMod", "enabled", action.value)
         [] action.type = "UPDATE_MESH_RESOLUTION" -> update("meshResolution", action.param, action.value)
         [] action.type = "UPDATE_SHELL_NUMBER" -> update("shellParams", action.param, action.value)
         [] action.type = "UPDATE_SHELL_ENABLED" -> update("shellParams", "enabled", action.value)
         [] action.type = "UPDATE_SHELL_THROAT_CAP" -> update("shellParams", "throatCap", action.value)
         [] action.type = "UPDATE_SHELL_MOUTH_CAP" -> update("shellParams", "mouthCap", action.value)
         [] action.type = "SET_VISUALIZATION_MODE" -> ("visualizationMode" :> action.mode) @@ s
         [] action.type = "RESET_TO_DEFAULTS" -> DEFAULT_PARAMS
         [] action.type = "LOAD_FROM_FILE" ->
              [key \in DOMAIN DEFAULT_PARAMS \cup DOMAIN action.state |->
                  IF key = "visualizationMode"
                  THEN (action.state @@ DEFAULT_PARAMS)[key]
                  ELSE IF key \in DOMAIN DEFAULT_PARAMS THEN merged(key)
                  ELSE action.state[key]]
         [] OTHER -> s

\* The reducer: the next state for an action.  A spread { ...a, ...b } is
\* b @@ a: the fields of b, then the fields of a that b does not hold.
waveguideReducer(s, action) ==
    LET update(group, key, value) == [s EXCEPT ![group] = (key :> value) @@ s[group]]
        merged(group) ==
            IF group \in DOMAIN action.state
            THEN action.state[group] @@ DEFAULT_PARAMS[group]
            ELSE DEFAULT_PARAMS[group]
    IN CASE action.type = "UPDATE_H_PARAM" -> update("horizontal", action.param, action.value)
         [] action.type = "UPDATE_V_PARAM" -> update("vertical", action.param, action.value)
         [] action.type = "UPDATE_SHAPE_BLEND" -> update("shapeBlend", action.param, action.value)
         [] action.type = "UPDATE_MOD_BLEND" -> update("modBlend", action.param, action.value)
         [] action.type = "UPDATE_DIAGONAL_NUMBER" -> update("diagonalMod", action.param, action.value)
         [] action.type = "UPDATE_DIAGONAL_ENABLED" -> update("diagonalMod", "enabled", action.value)
         [] action.type = "UPDATE_CARDMOD_NUMBER" -> update("cardinalMod", action.param, action.value)
         [] action.type = "UPDATE_CARDMOD_ENABLED" -> update("cardinalMod", "enabled", action.value)
         [] action.type = "UPDATE_MESH_RESOLUTION" -> update("meshResolution", action.param, action.value)
         [] action.type = "UPDATE_SHELL_NUMBER" -> update("shellParams", action.param, action.value)
         [] action.type = "UPDATE_SHELL_ENABLED" -> update("shellParams", "enabled", action.value)
         [] action.type = "UPDATE_SHELL_THROAT_CAP" -> update("shellParams", "throatCap", action.value)
         [] action.type = "UPDATE_SHELL_MOUTH_CAP" -> update("shellParams", "mouthCap", action.value)
         [] action.type = "SET_VISUALIZATION_MODE" -> ("visualizationMode" :> action.mode) @@ s
         [] action.type = "RESET_TO_DEFAULTS" -> DEFAULT_PARAMS
         [] action.type = "LOAD_FROM_FILE" ->
              [key \in DOMAIN DEFAULT_PARAMS \cup DOMAIN action.state |->
                  IF key = "visualizationMode"
                  THEN (action.state @@ DEFAULT_PARAMS)[key]
                  ELSE IF key \in DOMAIN DEFAULT_PARAMS THEN merged(key)
                  ELSE action.state[key]]
         [] OTHER -> s

\* The sliders of the control panel: the range of each from the parameter
\* configuration (or the literals of its section), and the actions its
\* onChange dispatches.  A throat or profile-shape slider dispatches to both
\* guides.
Sliders ==
    LET slider(types, param, min, max) == [types |-> types, param |-> param, min |-> min, max |-> max]
        both == <<"UPDATE_H_PARAM", "UPDATE_V_PARAM">>
    IN {slider(both, "r0", 6 * SC, 90 * SC), slider(both, "a0_deg", 0, 20 * SC),
        slider(both, "k", 300, 5 * SC), slider(both, "rho", 50, 900),
        slider(both, "m", 500, SC), slider(both, "b", 0, 800), slider(both, "q", SC, 10 * SC),
        slider(<<"UPDATE_H_PARAM">>, "R", 40 * SC, 350 * SC),
        slider(<<"UPDATE_H_PARAM">>, "a_deg", 15 * SC, 60 * SC),
        slider(<<"UPDATE_V_PARAM">>, "R", 30 * SC, 300 * SC),
        slider(<<"UPDATE_V_PARAM">>, "a_deg", 10 * SC, 55 * SC),
        slider(<<"UPDATE_SHAPE_BLEND">>, "nMouth", 2 * SC, 10 * SC),
        slider(<<"UPDATE_SHAPE_BLEND">>, "shapeStart", 0, 600),
        slider(<<"UPDATE_SHAPE_BLEND">>, "shapeEnd", 200, SC),
        slider(<<"UPDATE_SHAPE_BLEND">>, "shapePow", 300, 4 * SC),
        slider(<<"UPDATE_MOD_BLEND">>, "modStart", 0, 600),
        slider(<<"UPDATE_MOD_BLEND">>, "modEnd", 300, SC),
        slider(<<"UPDATE_MOD_BLEND">>, "modPow", 300, 4 * SC),
        slider(<<"UPDATE_DIAGONAL_NUMBER">>, "base", 50, SC),
        slider(<<"UPDATE_DIAGONAL_NUMBER">>, "amp", 0, 1500),
        slider(<<"UPDATE_DIAGONAL_NUMBER">>, "freq", 500, 6 * SC),
        slider(<<"UPDATE_DIAGONAL_NUMBER">>, "exp", SC, 12 * SC),
        slider(<<"UPDATE_CARDMOD_NUMBER">>, "base", 50, SC),
        slider(<<"UPDATE_CARDMOD_NUMBER">>, "amp", 0, 1500),
        slider(<<"UPDATE_CARDMOD_NUMBER">>, "freq", 500, 6 * SC),
        slider(<<"UPDATE_CARDMOD_NUMBER">>, "exp", SC, 12 * SC),
        slider(<<"UPDATE_MESH_RESOLUTION">>, "rings", 20, 200),
        slider(<<"UPDATE_MESH_RESOLUTION">>, "slices", 36, 256),
        slider(<<"UPDATE_SHELL_NUMBER">>, "thickness", 500, 20 * SC)}

\* The documents a user may open or follow as a share link: size in bytes,
\* length in characters, whether the text parses (YAML syntax; LZ
\* decompression and JSON), and the data it parses to.
Documents ==
    LET document(size, wellFormed, data) ==
            [size |-> size, length |-> size, wellFormed |-> wellFormed, data |-> data]
        metadata == [version |-> "1.0.0", appName |-> "Horn Designer"]
        design == [DEFAULT_PARAMS EXCEPT !.horizontal.R = 200 * SC, !.visualizationMode = "guides"]
    IN <<document(2048, TRUE, [metadata |-> metadata, state |-> design]),
         document(2048, TRUE, design),
         document(2048, TRUE, [design EXCEPT !.vertical.r0 = 20 * SC]),
         document(2048, TRUE, [design EXCEPT !.horizontal.r0 = 50 * SC, !.vertical.r0 = 50 * SC]),
         document(2048, TRUE, [design EXCEPT !.shapeBlend.shapeStart = 500, !.shapeBlend.shapeEnd = 500]),
         document(2048, TRUE, [key \in DOMAIN design \ {"shellParams"} |-> design[key]]),
         document(2048, TRUE, [design EXCEPT !.horizontal = [key \in DOMAIN design.horizontal \ {"q"} |-> design.horizontal[key]]]),
         document(2048, TRUE, [design EXCEPT !.visualizationMode = "wireframe"]),
         document(0, TRUE, Null),
         document(2048, FALSE, design),
         document(MAX_YAML_SIZE + 1, TRUE, design)>>

\* exportToYAML then yaml.load: the state under a metadata wrapper; the
\* header and the inline comments are comments of the YAML text.
exportToYAML(s) ==
    [size |-> 2048, length |-> 2048, wellFormed |-> TRUE,
     data |-> [metadata |-> [version |-> "1.0.0", appName |-> "Horn Designer"], state |-> s]]

\* compressStateToURL: the compressed JSON text of the state.
compressStateToURL(s) ==
    [size |-> 512, length |-> 512, wellFormed |-> TRUE, data |-> s]

\* importFromYAML: size check, parse, unwrap the metadata format, validate.
importFromYAML(yamlString) ==
    IF yamlString.length > MAX_YAML_SIZE THEN [success |-> FALSE, error |-> "File too large"]
    ELSE IF ~yamlString.wellFormed THEN [success |-> FALSE, error |-> "YAML syntax error"]
    ELSE LET parsed == yamlString.data
             stateData ==
                 IF parsed # Null /\ "state" \in DOMAIN parsed /\ "metadata" \in DOMAIN parsed
                 THEN parsed.state
                 ELSE parsed
         IN IF ~validateWaveguideState(stateData).valid
            THEN [success |-> FALSE, error |-> "Validation failed"]
            ELSE [success |-> TRUE, state |-> stateData]

\* decompressStateFromURL: the validated state, or Null when the
\* decompression, the parse or the validation fails.
decompressStateFromURL(compressed) ==
    IF ~compressed.wellFormed THEN Null
    ELSE IF ~validateWaveguideState(compressed.data).valid THEN Null
    ELSE compressed.data

\* handleFileSelect without the confirmation dialog.
handleFileSelectUnconfirmed(s, file, confirmed) ==
    IF file.size > MAX_YAML_SIZE THEN [state |-> s, toast |-> "File too large"]
    ELSE LET result == importFromYAML(file)
         IN IF ~result.success THEN [state |-> s, toast |-> result.error]
            ELSE [state |-> waveguideReducer(s, [type |-> "LOAD_FROM_FILE", state |-> result.state]),
                  toast |-> "Design loaded successfully"]

\* handleFileSelect of the project controls: the state after the user chose
\* the file and answered the confirmation dialog, and the toast shown.
handleFileSelect(s, file, confirmed) ==
    IF file.size > MAX_YAML_SIZE THEN [state |-> s, toast |-> "File too large"]
    ELSE LET result == importFromYAML(file)
         IN IF ~result.success THEN [state |-> s, toast |-> result.error]
            ELSE IF confirmed
            THEN [state |-> waveguideReducer(s, [type |-> "LOAD_FROM_FILE", state |-> result.state]),
                  toast |-> "Design loaded successfully"]
            ELSE [state |-> s, toast |-> "none"]

\* The effect AppContent runs on mount: load the design of the URL, if any.
AppContent(s, designParam) ==
    IF designParam = Null THEN [state |-> s, toast |-> "none"]
    ELSE IF decompressStateFromURL(designParam) # Null
    THEN [state |-> waveguideReducer(s, [type |-> "LOAD_FROM_FILE", state |-> decompressStateFromURL(designParam)]),
          toast |-> "Design loaded from shared link"]
    ELSE [state |-> s, toast |-> "Invalid share link - using default design"]

\* ---- The application as a state machine --------------------------------
\* pc is "mount" until the mount effect has run, then "idle"; call is the
\* last import request (the share link of the URL or the chosen file with
\* the user's answer to the confirmation dialog), Null while there was none;
\* ret names the last handler and the toast it showed; steps counts the interactions.

\* The provider's initial state, under a URL without a design or with a
\* share link: the link of a design (its guides differ in r0), of a design
\* outside the validator's ranges, or a damaged link.
InitApp ==
    /\ pc = "mount"
    /\ state = DEFAULT_PARAMS
    /\ \/ call = Null
       \/ \E i \in 3..4 : \E wellFormed \in BOOLEAN :
            /\ i = 3 \/ wellFormed
            /\ call = [handler |-> "AppContent", confirmed |-> TRUE,
                       document |-> [compressStateToURL(Documents[i].data) EXCEPT !.wellFormed = wellFormed]]
    /\ hData = Null /\ vData = Null /\ meshData = Null /\ metrics = Null
    /\ shellData = Null /\ stl = Null /\ ret = Null
    /\ steps = 0

\* The mount effect.
Mount ==
    /\ pc = "mount"
    /\ LET loaded == AppContent(state, IF call = Null THEN Null ELSE call.document)
       IN /\ state' = loaded.state
          /\ ret' = [handler |-> "AppContent", toast |-> loaded.toast]
    /\ pc' = "idle"
    /\ UNCHANGED <<hData, vData, meshData, metrics, shellData, stl, call, steps>>

\* The user moves a slider (or types a value, which is clamped) to an end
\* of its range; its onChange dispatches one action per listed type.
Slide ==
    /\ pc = "idle" /\ steps < MaxInteractions
    /\ \E slider \in Sliders : \E value \in {slider.min, slider.max} :
         LET first == waveguideReducer(state, [type |-> slider.types[1], param |-> slider.param, value |-> value])
         IN state' = IF Len(slider.types) = 1 THEN first
                     ELSE waveguideReducer(first, [type |-> slider.types[2], param |-> slider.param, value |-> value])
    /\ ret' = [handler |-> "control", toast |-> "none"]
    /\ steps' = steps + 1
    /\ UNCHANGED <<pc, hData, vData, meshData, metrics, shellData, stl, call>>

\* The user clicks one of the three enable toggles.
Toggle ==
    /\ pc = "idle" /\ steps < MaxInteractions
    /\ \/ state' = waveguideReducer(state, [type |-> "UPDATE_DIAGONAL_ENABLED", value |-> ~state.diagonalMod.enabled])
       \/ state' = waveguideReducer(state, [type |-> "UPDATE_CARDMOD_ENABLED", value |-> ~state.cardinalMod.enabled])
       \/ state' = waveguideReducer(state, [type |-> "UPDATE_SHELL_ENABLED", value |-> ~state.shellParams.enabled])
    /\ ret' = [handler |-> "control", toast |-> "none"]
    /\ steps' = steps + 1
    /\ UNCHANGED <<pc, hData, vData, meshData, metrics, shellData, stl, call>>

\* The user picks a tab of the visualization panel.
SetVisualizationMode ==
    /\ pc = "idle" /\ steps < MaxInteractions
    /\ \E id \in {"guides", "cross", "xmod", "3d", "blend"} :
         state' = waveguideReducer(state, [type |-> "SET_VISUALIZATION_MODE", mode |-> id])
    /\ ret' = [handler |-> "control", toast |-> "none"]
    /\ steps' = steps + 1
    /\ UNCHANGED <<pc, hData, vData, meshData, metrics, shellData, stl, call>>

\* The user clicks Reset to Defaults and answers the confirmation dialog.
HandleReset ==
    /\ pc = "idle" /\ steps < MaxInteractions
    /\ \E confirmed \in BOOLEAN :
         /\ state' = IF confirmed THEN waveguideReducer(state, [type |-> "RESET_TO_DEFAULTS"]) ELSE state
         /\ ret' = [handler |-> "handleReset", toast |-> IF confirmed THEN "Reset to default design" ELSE "none"]
    /\ steps' = steps + 1
    /\ UNCHANGED <<pc, hData, vData, meshData, metrics, shellData, stl, call>>

\* The user chooses a file to import and answers the confirmation dialog;
\* the dialog can be declined only when it is shown.
HandleFileSelect ==
    /\ pc = "idle" /\ steps < MaxInteractions
    /\ \E i \in 1..Len(Documents) : \E confirmed \in BOOLEAN :
         /\ confirmed \/ (Documents[i].size <= MAX_YAML_SIZE /\ importFromYAML(Documents[i]).success)
         /\ call' = [handler |-> "handleFileSelect", document |-> Documents[i], confirmed |-> confirmed]
         /\ state' = handleFileSelect(state, Documents[i], confirmed).state
         /\ ret' = [handler |-> "handleFileSelect", toast |-> handleFileSelect(state, Documents[i], confirmed).toast]
    /\ steps' = steps + 1
    /\ UNCHANGED <<pc, hData, vData, meshData, metrics, shellData, stl>>

NextApp == Mount \/ Slide \/ Toggle \/ SetVisualizationMode \/ HandleReset \/ HandleFileSelect

SpecApp == InitApp /\ [][NextApp]_vars

\* ------------------------------------------------------------------------
\* C26: blend windows of the states the controls reach.
\* ------------------------------------------------------------------------

\* The state was reached from DEFAULT_PARAMS through the controls alone: the
\* application has mounted and no share link or file was ever requested.
controlsOnly == pc = "idle" /\ call = Null

\* C26: in every state reached from DEFAULT_PARAMS through the controls
\* (slider values within their configured ranges), shapeStart < shapeEnd and
\* modStart < modEnd.
C26_BlendWindowsProper ==
    controlsOnly =>
        /\ state.shapeBlend.shapeStart < state.shapeBlend.shapeEnd
        /\ state.modBlend.modStart < state.modBlend.modEnd

\* ------------------------------------------------------------------------
\* C27: a design is loaded only when validated (and, for a file, confirmed).
\* ------------------------------------------------------------------------

\* The design a document carries: the state under the metadata wrapper of a
\* YAML export, else the document's data itself.
designOf(document) ==
    IF document.data # Null /\ "state" \in DOMAIN document.data /\ "metadata" \in DOMAIN document.data
    THEN document.data.state
    ELSE document.data

\* The share link decompresses and parses, and the validator accepts its data.
linkAccepted(request) ==
    /\ request # Null
    /\ request.document.wellFormed
    /\ validateWaveguideState(request.document.data).valid

\* The file passes the size checks, parses, the validator accepts its
\* design, and the user confirmed.
fileAccepted(request) ==
    /\ request.document.size <= MAX_YAML_SIZE
    /\ request.document.length <= MAX_YAML_SIZE
    /\ request.document.wellFormed
    /\ validateWaveguideState(designOf(request.document)).valid
    /\ request.confirmed

\* C27: the mount effect and the file import replace the state by the
\* imported design only after validateWaveguideState accepted it, and the
\* file import only after the user also confirmed; a failed decompression,
\* parse, size check or validation, or a declined confirmation, leaves the
\* state unchanged.
C27_LoadOnlyValidated ==
    [][/\ Mount =>
            IF linkAccepted(call)
            THEN state' = waveguideReducer(state, [type |-> "LOAD_FROM_FILE", state |-> call.document.data])
            ELSE state' = state
       /\ (pc = "idle" /\ ret'.handler = "handleFileSelect") =>
            IF fileAccepted(call')
            THEN state' = waveguideReducer(state, [type |-> "LOAD_FROM_FILE", state |-> designOf(call'.document)])
            ELSE state' = state]_vars

\* A file passed every check and the user confirmed: the design of the file
\* is now the state.
C27_Witness ==
    /\ pc = "idle" /\ call # Null /\ call.handler = "handleFileSelect"
    /\ fileAccepted(call)
    /\ ret.toast = "Design loaded successfully"
    /\ state = designOf(call.document)
    /\ state # DEFAULT_PARAMS

\* ------------------------------------------------------------------------
\* C28: the throat parameters of the two guides.
\* ------------------------------------------------------------------------

\* C28: in every state reached from DEFAULT_PARAMS through control
\* interactions, resets and file or URL loads, horizontal and vertical hold
\* equal r0, a0_deg and k.
C28_ThroatShared ==
    /\ state.horizontal.r0 = state.vertical.r0
    /\ state.horizontal.a0_deg = state.vertical.a0_deg
    /\ state.horizontal.k = state.vertical.k

\* ------------------------------------------------------------------------
\* C29: a state the controls reach can be exported and loaded back.
\* ------------------------------------------------------------------------

\* The state an import of the document leaves when it is loaded into s, or
\* Null when the import is refused.
reloaded(s, result) ==
    IF result = Null THEN Null
    ELSE waveguideReducer(s, [type |-> "LOAD_FROM_FILE", state |-> result])

\* C29: every state reached from DEFAULT_PARAMS through the sliders and
\* toggles is accepted by validateWaveguideState, and its YAML export and
\* its share link load back to the same state.
C29_ExportReloads ==
    controlsOnly =>
        /\ validateWaveguideState(state).valid
        /\ importFromYAML(exportToYAML(state)).success
        /\ reloaded(DEFAULT_PARAMS, importFromYAML(exportToYAML(state)).state) = state
        /\ reloaded(DEFAULT_PARAMS, decompressStateFromURL(compressStateToURL(state))) = state

\* ------------------------------------------------------------------------
\* C30: the frame of each reducer action.
\* ------------------------------------------------------------------------

\* The group each UPDATE_*_PARAM / _NUMBER / _BLEND / _RESOLUTION action
\* writes, and the field each flag action writes.
numberGroup ==
    [UPDATE_H_PARAM |-> "horizontal", UPDATE_V_PARAM |-> "vertical",
     UPDATE_SHAPE_BLEND |-> "shapeBlend", UPDATE_MOD_BLEND |-> "modBlend",
     UPDATE_DIAGONAL_NUMBER |-> "diagonalMod", UPDATE_CARDMOD_NUMBER |-> "cardinalMod",
     UPDATE_MESH_RESOLUTION |-> "meshResolution", UPDATE_SHELL_NUMBER |-> "shellParams"]

flagField ==
    [UPDATE_DIAGONAL_ENABLED |-> <<"diagonalMod", "enabled">>,
     UPDATE_CARDMOD_ENABLED |-> <<"cardinalMod", "enabled">>,
     UPDATE_SHELL_ENABLED |-> <<"shellParams", "enabled">>,
     UPDATE_SHELL_THROAT_CAP |-> <<"shellParams", "throatCap">>,
     UPDATE_SHELL_MOUTH_CAP |-> <<"shellParams", "mouthCap">>]

\* t is s with field key of group set to value and nothing else changed:
\* putting back the old value of the field gives the old group, and putting
\* back the old group gives the old state.
onlyFieldChanged(s, t, group, key, value) ==
    /\ t[group][key] = value
    /\ [t[group] EXCEPT ![key] = s[group][key]] = s[group]
    /\ [t EXCEPT ![group] = s[group]] = s

\* The frame of every action on s: each number action for each numeric
\* field of its group, each flag action for both values, each mode, and an
\* action of a type the reducer does not know.
frameHolds(s) ==
    /\ \A type \in DOMAIN numberGroup :
         \A param \in DOMAIN s[numberGroup[type]] \ {"enabled", "throatCap", "mouthCap"} :
           onlyFieldChanged(s, waveguideReducer(s, [type |-> type, param |-> param, value |-> 7 * SC]),
                            numberGroup[type], param, 7 * SC)
    /\ \A type \in DOMAIN flagField : \A value \in BOOLEAN :
         onlyFieldChanged(s, waveguideReducer(s, [type |-> type, value |-> value]),
                          flagField[type][1], flagField[type][2], value)
    /\ \A mode \in {"guides", "cross", "xmod", "3d", "blend"} :
         LET t == waveguideReducer(s, [type |-> "SET_VISUALIZATION_MODE", mode |-> mode])
         IN /\ t.visualizationMode = mode
            /\ [t EXCEPT !.visualizationMode = s.visualizationMode] = s
    /\ waveguideReducer(s, [type |-> "UPDATE_XMOD_NUMBER", param |-> "amp", value |-> 7 * SC]) = s

\* C30: in every state the application reaches, each UPDATE_* action changes
\* only the one named field of its own group, SET_VISUALIZATION_MODE changes
\* only visualizationMode, and an action of unknown type returns the state
\* unchanged.
C30_ReducerFrame == frameHolds(state)

\* A state after two interactions in which two groups and the visualization
\* mode differ from the defaults: the fields an action must preserve are
\* not the default ones.
C30_Witness ==
    /\ pc = "idle" /\ steps = 2
    /\ state.horizontal # DEFAULT_PARAMS.horizontal
    /\ state.shellParams # DEFAULT_PARAMS.shellParams
    /\ state.visualizationMode # DEFAULT_PARAMS.visualizationMode
    /\ frameHolds(state)

====
